---- MODULE Spec2Model ----
(***************************************************************************)
(* A model of the collection-and-publication pipeline of the GitHub        *)
(* Actions exporter (package metrics):                                     *)
(*                                                                         *)
(*   - the field derivation of a workflow run (getFieldValue, the derived  *)
(*     target branch and title, the numeric status code);                  *)
(*   - the five pagination loops (getAllReposForOrg,                       *)
(*     getAllWorkflowsForRepo, getWorkflowRunsToFetchFromRepo,             *)
(*     getAllRepoRunners, getAllOrgRunners);                               *)
(*   - the refresher goroutine periodicGithubFetcher, which writes the     *)
(*     globals repositories and workflows;                                 *)
(*   - the collector goroutines and the gauges they own.                   *)
(*                                                                         *)
(* Go values.  A pointer is a sequence of length at most one: <<>> is nil  *)
(* and <<v>> points to v.  A string is a TLA+ string, except a commit      *)
(* message, which is a sequence of one-character strings because the code  *)
(* splits and trims it.  A GaugeVec is a function from label vectors       *)
(* (sequences of strings) to numbers; its domain is the set of series a    *)
(* scrape sees.                                                            *)
(***************************************************************************)
EXTENDS Integers, Sequences, FiniteSets, TLC

VARIABLES
  config,                   \* package config: the options the code reads
  repositories,             \* metrics.repositories
  workflows,                \* metrics.workflows
  workflowRunStatusGauge,   \* github_workflow_run_status
  workflowRunDurationGauge, \* github_workflow_run_duration_ms
  runnersGauge,             \* github_runner_status
  runnersOrganizationGauge, \* github_runner_organization_status
  workflowBillGauge,        \* github_workflow_usage_seconds
  fetcher,                  \* goroutine periodicGithubFetcher: position and locals
  runsTask,                 \* goroutine getWorkflowRunsFromGithub: position and locals
  runnersTask,              \* goroutine getRunnersFromGithub
  orgRunnersTask,           \* goroutine getRunnersOrganizationFromGithub
  billTask,                 \* goroutine getBillableFromGithub
  pager,                    \* one pagination loop: its options, its result so far
  task,                     \* the collector under observation
  history                   \* observation only: what each cycle fetched and left

vars == <<config, repositories, workflows, workflowRunStatusGauge,
          workflowRunDurationGauge, runnersGauge, runnersOrganizationGauge,
          workflowBillGauge, fetcher, runsTask, runnersTask, orgRunnersTask,
          billTask, pager, task, history>>

\* Everything but the state of the workflow-run collector.
notRuns == <<config, repositories, workflows, runnersGauge, runnersOrganizationGauge,
             workflowBillGauge, fetcher, runnersTask, orgRunnersTask, billTask,
             pager, task>>

-----------------------------------------------------------------------------
(* Pointers and the getSafe helpers *)

Nil == <<>>

Ptr(v) == <<v>>

getSafeString(s) == IF s # Nil THEN s[1] ELSE ""

getSafeInt64(i) == IF i # Nil THEN i[1] ELSE 0

getSafeInt(i) == IF i # Nil THEN i[1] ELSE 0

\* strconv.FormatInt(n, 10) and strconv.Itoa(n): the decimal numeral of n.
FormatInt(n) == ToString(n)

\* A time.Time: the zero time (year 1), or an instant in microseconds since
\* the Unix epoch.
ZeroTime == [zero |-> TRUE, us |-> 0]

TimeAt(us) == [zero |-> FALSE, us |-> us]

IsZero(t) == t.zero

\* Time.Unix(): whole seconds since the epoch, rounded down.
Unix(t) == t.us \div 1000000

\* A rendering that leaves an absent or zero timestamp empty, as the string
\* fields do.
UnixFieldOrEmpty(ts) == IF ts # Nil /\ ~IsZero(ts[1]) THEN FormatInt(Unix(ts[1])) ELSE ""

\* The Unix-seconds rendering shared by the three timestamp fields.
UnixField(ts) == IF ts # Nil /\ ~IsZero(ts[1]) THEN FormatInt(Unix(ts[1])) ELSE "0"

-----------------------------------------------------------------------------
(* Strings the code takes apart *)

RECURSIVE Join(_)
\* The string made of a sequence of characters.
Join(cs) == IF cs = <<>> THEN "" ELSE Head(cs) \o Join(Tail(cs))

RECURSIVE FirstLine(_)
\* strings.SplitN(s, "\n", 2)[0]: the part of s before its first line feed.
FirstLine(cs) ==
  IF cs = <<>> \/ Head(cs) = "\n" THEN <<>> ELSE <<Head(cs)>> \o FirstLine(Tail(cs))

WhiteSpace == {" ", "\t", "\n", "\r", "\f"}

RECURSIVE TrimLeft(_)
TrimLeft(cs) ==
  IF cs # <<>> /\ Head(cs) \in WhiteSpace THEN TrimLeft(Tail(cs)) ELSE cs

RECURSIVE TrimRight(_)
TrimRight(cs) ==
  IF cs # <<>> /\ cs[Len(cs)] \in WhiteSpace
  THEN TrimRight(SubSeq(cs, 1, Len(cs) - 1))
  ELSE cs

\* strings.TrimSpace
TrimSpace(cs) == TrimRight(TrimLeft(cs))

\* strings.Split(repoFullName, "/") for the repository identifiers of the
\* model: "owner/name" splits in two, an identifier without a slash in one,
\* one with two slashes in three.
ownerAndRepo(repoFullName) ==
  CASE repoFullName = "o/a" -> <<"o", "a">>
    [] repoFullName = "o/b" -> <<"o", "b">>
    [] repoFullName = "p/c" -> <<"p", "c">>
    [] repoFullName = "x/y/z" -> <<"x", "y", "z">>
    [] OTHER -> <<repoFullName>>

-----------------------------------------------------------------------------
(* Field derivation: one run to its label vector and status code *)

\* getFieldValue: the direct fields; reads the global workflows.
getFieldValue(repoFullName, run, fieldName) ==
  CASE fieldName = "repo" -> repoFullName
    [] fieldName = "run_id" -> FormatInt(getSafeInt64(run.ID))
    [] fieldName = "node_id" -> getSafeString(run.NodeID)
    [] fieldName = "head_branch" -> getSafeString(run.HeadBranch)
    [] fieldName = "head_sha" -> getSafeString(run.HeadSHA)
    [] fieldName = "path" -> getSafeString(run.Path)
    [] fieldName = "run_number" -> FormatInt(getSafeInt(run.RunNumber))
    [] fieldName = "run_attempt" -> FormatInt(getSafeInt(run.RunAttempt))
    [] fieldName = "event" -> getSafeString(run.Event)
    [] fieldName = "display_title" -> getSafeString(run.DisplayTitle)
    [] fieldName = "status" -> getSafeString(run.Status)
    [] fieldName = "conclusion" -> getSafeString(run.Conclusion)
    [] fieldName = "workflow_id" -> FormatInt(getSafeInt64(run.WorkflowID))
    [] fieldName = "workflow_name" ->
         LET id == getSafeInt64(run.WorkflowID) IN
         IF /\ repoFullName \in DOMAIN workflows
            /\ id \in DOMAIN workflows[repoFullName]
            /\ workflows[repoFullName][id] # Nil
            /\ workflows[repoFullName][id][1].Name # Nil
         THEN workflows[repoFullName][id][1].Name[1]
         ELSE "unknown_workflow_name"
    [] fieldName = "pr_number" ->
         IF /\ Len(run.PullRequests) > 0
            /\ run.PullRequests[1] # Nil
            /\ run.PullRequests[1][1].Number # Nil
         THEN FormatInt(run.PullRequests[1][1].Number[1])
         ELSE ""
    [] fieldName = "actor_login" ->
         IF run.Actor # Nil /\ run.Actor[1].Login # Nil
         THEN run.Actor[1].Login[1]
         ELSE ""
    [] fieldName = "triggering_actor_login" ->
         IF run.TriggeringActor # Nil /\ run.TriggeringActor[1].Login # Nil
         THEN run.TriggeringActor[1].Login[1]
         ELSE ""
    [] fieldName = "created_at_unix" -> UnixField(run.CreatedAt)
    [] fieldName = "updated_at_unix" -> UnixField(run.UpdatedAt)
    [] fieldName = "run_started_at_unix" -> UnixField(run.RunStartedAt)
    [] OTHER -> ""

\* A target branch that takes the base ref of the first pull request
\* whatever the event is.
derivedTargetBranchAnyEvent(run) ==
  IF /\ Len(run.PullRequests) > 0
     /\ run.PullRequests[1] # Nil
     /\ run.PullRequests[1][1].Base # Nil
     /\ run.PullRequests[1][1].Base[1].Ref # Nil
  THEN run.PullRequests[1][1].Base[1].Ref[1]
  ELSE IF run.HeadBranch # Nil THEN run.HeadBranch[1] ELSE ""

\* The derived target branch (the first if/else-if of the run loop).
derivedTargetBranch(run) ==
  IF /\ getSafeString(run.Event) = "pull_request"
     /\ Len(run.PullRequests) > 0
     /\ run.PullRequests[1] # Nil
     /\ run.PullRequests[1][1].Base # Nil
     /\ run.PullRequests[1][1].Base[1].Ref # Nil
  THEN run.PullRequests[1][1].Base[1].Ref[1]
  ELSE IF run.HeadBranch # Nil THEN run.HeadBranch[1] ELSE ""

\* A title that takes the display title whenever it is present, empty or
\* not.
derivedCommitPrTitleAnyDisplayTitle(run) ==
  IF /\ getSafeString(run.Event) = "pull_request"
     /\ Len(run.PullRequests) > 0
     /\ run.PullRequests[1] # Nil
     /\ run.PullRequests[1][1].Title # Nil
  THEN run.PullRequests[1][1].Title[1]
  ELSE IF run.DisplayTitle # Nil
  THEN run.DisplayTitle[1]
  ELSE IF run.HeadCommit # Nil /\ run.HeadCommit[1].Message # Nil
  THEN Join(TrimSpace(FirstLine(run.HeadCommit[1].Message[1])))
  ELSE ""

\* The derived commit or pull-request title.
derivedCommitPrTitle(run) ==
  IF /\ getSafeString(run.Event) = "pull_request"
     /\ Len(run.PullRequests) > 0
     /\ run.PullRequests[1] # Nil
     /\ run.PullRequests[1][1].Title # Nil
  THEN run.PullRequests[1][1].Title[1]
  ELSE IF run.DisplayTitle # Nil /\ run.DisplayTitle[1] # ""
  THEN run.DisplayTitle[1]
  ELSE IF run.HeadCommit # Nil /\ run.HeadCommit[1].Message # Nil
  THEN Join(TrimSpace(FirstLine(run.HeadCommit[1].Message[1])))
  ELSE ""

\* The cancelled and skipped codes exchanged.
numericStatusSwapped(run) ==
  LET runStatus == getSafeString(run.Status)
      runConclusion == getSafeString(run.Conclusion)
  IN IF runStatus = "completed"
     THEN CASE runConclusion = "success" -> 1
            [] runConclusion = "failure" -> 0
            [] runConclusion = "cancelled" -> 2
            [] runConclusion = "skipped" -> 5
            [] runConclusion = "neutral" -> 6
            [] runConclusion = "timed_out" -> 7
            [] OTHER -> 8
     ELSE IF runStatus \in {"in_progress", "requested", "waiting"} THEN 3
     ELSE IF runStatus = "queued" THEN 4
     ELSE IF runStatus = "action_required" THEN 9
     ELSE IF runStatus = "stale" THEN 10
     ELSE 99

\* The numeric status of a run, from run.Status and run.Conclusion.
numericStatus(run) ==
  LET runStatus == getSafeString(run.Status)
      runConclusion == getSafeString(run.Conclusion)
  IN IF runStatus = "completed"
     THEN CASE runConclusion = "success" -> 1
            [] runConclusion = "failure" -> 0
            [] runConclusion = "cancelled" -> 5
            [] runConclusion = "skipped" -> 2
            [] runConclusion = "neutral" -> 6
            [] runConclusion = "timed_out" -> 7
            [] OTHER -> 8
     ELSE IF runStatus = "in_progress" \/ runStatus = "requested" \/ runStatus = "waiting"
     THEN 3
     ELSE IF runStatus = "queued" THEN 4
     ELSE IF runStatus = "action_required" THEN 9
     ELSE IF runStatus = "stale" THEN 10
     ELSE 99

\* strings.Split(config.WorkflowFields, ","): the configured field names.
\* The option is held already split; Split never returns an empty slice.
configuredFieldNames == config.WorkflowFields

\* A vector that leaves out the fields whose value is empty (an append of
\* the non-empty values in place of the indexed assignment).
labelValuesDropUnknown(repoFullName, run, fieldNames) ==
  LET known == SelectSeq(fieldNames,
                 LAMBDA f : f \in {"derived_target_branch", "derived_commit_pr_title"}
                            \/ getFieldValue(repoFullName, run, f) # "")
  IN [i \in 1..Len(known) |->
        CASE known[i] = "derived_target_branch" -> derivedTargetBranch(run)
          [] known[i] = "derived_commit_pr_title" -> derivedCommitPrTitle(run)
          [] OTHER -> getFieldValue(repoFullName, run, known[i])]

\* A vector that leaves the workflow name empty when the cache has none (the
\* lookup falling through without its default).
labelValuesNameOrEmpty(repoFullName, run, fieldNames) ==
  [i \in 1..Len(fieldNames) |->
     CASE fieldNames[i] = "derived_target_branch" -> derivedTargetBranch(run)
       [] fieldNames[i] = "derived_commit_pr_title" -> derivedCommitPrTitle(run)
       [] fieldNames[i] = "workflow_name"
          /\ getFieldValue(repoFullName, run, "workflow_name") = "unknown_workflow_name" -> ""
       [] OTHER -> getFieldValue(repoFullName, run, fieldNames[i])]

\* The label values of a run, in the order of the field names.
labelValues(repoFullName, run, fieldNames) ==
  [i \in 1..Len(fieldNames) |->
     CASE fieldNames[i] = "derived_target_branch" -> derivedTargetBranch(run)
       [] fieldNames[i] = "derived_commit_pr_title" -> derivedCommitPrTitle(run)
       [] OTHER -> getFieldValue(repoFullName, run, fieldNames[i])]

-----------------------------------------------------------------------------
(* Gauges *)

\* A GaugeVec without series.
EmptyGauge == [lv \in {} |-> 0]

\* A reset that leaves the series where they are.
ResetKeepsSeries(gauge) == gauge

\* A reset that spares a gauge with a single series.
ResetWhenMany(gauge) == IF Cardinality(DOMAIN gauge) > 1 THEN EmptyGauge ELSE gauge

\* GaugeVec.Reset()
Reset(gauge) == EmptyGauge

\* A set that leaves a series that exists as it is.
WithLabelValuesSetOnce(gauge, lv, v) ==
  [x \in DOMAIN gauge \cup {lv} |-> IF x \in DOMAIN gauge THEN gauge[x] ELSE v]

\* A series whose value grows by what is set.
WithLabelValuesAdd(gauge, lv, v) ==
  [x \in DOMAIN gauge \cup {lv} |->
     IF x = lv THEN (IF lv \in DOMAIN gauge THEN gauge[lv] + v ELSE v) ELSE gauge[x]]

\* GaugeVec.WithLabelValues(lv...).Set(v)
WithLabelValuesSet(gauge, lv, v) ==
  [x \in DOMAIN gauge \cup {lv} |-> IF x = lv THEN v ELSE gauge[x]]

-----------------------------------------------------------------------------
(* The duration of a run *)

\* Time.After
After(t, u) == t.us > u.us

\* Duration.Milliseconds() of t.Sub(u): whole milliseconds, truncated
\* toward zero.
SubMilliseconds(t, u) ==
  LET d == t.us - u.us
  IN IF d >= 0 THEN d \div 1000 ELSE -((-d) \div 1000)

\* What client.Actions.GetWorkflowRunUsageByID may answer: an error (a rate
\* limit or another one), or a usage that may be nil or carry no duration.
UsageOutcomes ==
  { [err |-> "ratelimit", usage |-> Nil],
    [err |-> "other", usage |-> Nil],
    [err |-> "none", usage |-> Nil],
    [err |-> "none", usage |-> Ptr([RunDurationMS |-> Nil])],
    [err |-> "none", usage |-> Ptr([RunDurationMS |-> Ptr(1234)])] }

\* A duration whose fallback does not look at the status of the run.
durationMsAnyStatus(run, u) ==
  IF u.err = "none" /\ u.usage # Nil /\ u.usage[1].RunDurationMS # Nil
  THEN getSafeInt64(u.usage[1].RunDurationMS)
  ELSE IF /\ run.RunStartedAt # Nil /\ ~IsZero(run.RunStartedAt[1])
          /\ run.UpdatedAt # Nil /\ ~IsZero(run.UpdatedAt[1])
          /\ After(run.UpdatedAt[1], run.RunStartedAt[1])
       THEN SubMilliseconds(run.UpdatedAt[1], run.RunStartedAt[1])
       ELSE -1

\* durationMs of the run loop, given the answer of the usage endpoint.
durationMs(run, u) ==
  LET runStatus == getSafeString(run.Status)
  IN IF u.err = "none" /\ u.usage # Nil /\ u.usage[1].RunDurationMS # Nil
     THEN getSafeInt64(u.usage[1].RunDurationMS)
     ELSE IF /\ (runStatus = "completed" \/ runStatus = "stale")
             /\ run.RunStartedAt # Nil /\ ~IsZero(run.RunStartedAt[1])
             /\ run.UpdatedAt # Nil /\ ~IsZero(run.UpdatedAt[1])
             /\ After(run.UpdatedAt[1], run.RunStartedAt[1])
          THEN SubMilliseconds(run.UpdatedAt[1], run.RunStartedAt[1])
          ELSE -1

-----------------------------------------------------------------------------
(* The workflow-run collector, getWorkflowRunsFromGithub.                  *)
(* runsTask.pc: "start" before the checks that precede the ticker,         *)
(* "stopped" after one of them returned, "idle" waiting for a tick,        *)
(* "repos" in the loop over the repositories, "runs" in the loop over the  *)
(* runs fetched for repos[i].                                              *)

\* What the observer keeps (history, which no action of the program reads):
\* log, what the cycle in progress or just finished fetched and published;
\* stamps, for each series of the collector's gauge, whether it was set
\* since the collector's last tick ("cur") or before it ("old"); cleared,
\* whether the last tick removed series; last and prev, the log and the
\* gauges of the last two cycles, kept when keep holds; fetched, the
\* fetches made since the last tick (for which repository or organization,
\* what it returned, whether it ended on an error), kept otherwise.
NoHistory ==
  [log |-> <<>>, stamps |-> <<>>, cleared |-> FALSE, keep |-> FALSE,
   last |-> Nil, prev |-> Nil, fetched |-> <<>>]

\* A tick was handled and turned the gauge `before` into `after`: a new
\* log, and every series that is still there dates from before the tick.
TickSeen(h, before, after) ==
  [h EXCEPT !.log = <<>>,
            !.stamps = [lv \in DOMAIN after |-> "old"],
            !.cleared = (DOMAIN before # DOMAIN after),
            !.fetched = <<>>]

\* A fetch was made for scope and ended as `fetch` tells.
FetchSeen(h, scope, fetch) ==
  IF h.keep
  THEN h
  ELSE [h EXCEPT !.fetched = @ \o <<[scope |-> scope, result |-> fetch.result,
                                     failed |-> fetch.failed]>>]

\* The series `set` were set and the gauge is now `gauge`; `entries` tell
\* what they were set from.
SetSeen(h, entries, set, gauge) ==
  [h EXCEPT !.log = @ \o entries,
            !.stamps = [lv \in DOMAIN gauge |->
                          IF lv \in set THEN "cur" ELSE h.stamps[lv]]]

\* A cycle ended with the gauges `gauges`.
CycleSeen(h, gauges) ==
  IF h.keep
  THEN [h EXCEPT !.prev = h.last, !.last = Ptr([log |-> h.log, gauges |-> gauges])]
  ELSE h

\* The observation of one fetched run: the run, the answer of the usage
\* endpoint (Nil when it was not called) and the series set with its value
\* (Nil when the run was skipped).
Observed(repoFullName, run, usage, series) ==
  [repo |-> repoFullName, run |-> run, usage |-> usage, series |-> series]

\* The loop variables after the run at index j.
AfterRun ==
  IF runsTask.j < Len(runsTask.fetchedRuns)
  THEN [runsTask EXCEPT !.j = @ + 1]
  ELSE [runsTask EXCEPT !.pc = "repos", !.i = @ + 1]

\* What `range repositories` may go through.  The range expression is
\* evaluated once, into a copy of the slice header (pointer and length),
\* and no lock, channel or atomic orders that load with the assignment of
\* the refresher: a load made while the refresher assigns may take the
\* pointer of one list and the length of the other.  list is what the loop
\* finds within the array the pointer names; stray tells that the length
\* reaches past that array (or that the pointer is still nil), so that the
\* loop then reads memory that is no part of any list.
rangeRepositories ==
  IF fetcher.pc # "build"
  THEN { [list |-> repositories, stray |-> FALSE] }
  ELSE LET old == fetcher.replaced
           header(array, length) ==
             IF length <= Len(array)
             THEN [list |-> SubSeq(array, 1, length), stray |-> FALSE]
             ELSE [list |-> array, stray |-> TRUE]
       IN { header(repositories, Len(repositories)),
            header(repositories, Len(old)),
            header(old, Len(repositories)) }

\* The checks before the ticker: the collector ends when the repository
\* list is empty at that moment.
RunsStart ==
  /\ task = "runs"
  /\ runsTask.pc = "start"
  /\ runsTask' = [runsTask EXCEPT !.pc = IF Len(repositories) = 0 THEN "stopped" ELSE "idle"]
  /\ UNCHANGED <<workflowRunStatusGauge, workflowRunDurationGauge, history>>
  /\ UNCHANGED notRuns

\* A tick: both gauges are reset and the loop over the repositories begins.
RunsTick ==
  /\ task = "runs"
  /\ runsTask.pc = "idle"
  /\ workflowRunStatusGauge' = Reset(workflowRunStatusGauge)
  /\ workflowRunDurationGauge' =
       IF config.FetchWorkflowRunUsage
       THEN Reset(workflowRunDurationGauge)
       ELSE workflowRunDurationGauge
  /\ \E load \in rangeRepositories :
       runsTask' = [pc |-> "repos", repos |-> load.list, stray |-> load.stray,
                    i |-> 1, fetchedRuns |-> <<>>, j |-> 1]
  /\ history' = TickSeen(history, workflowRunStatusGauge, workflowRunStatusGauge')
  /\ UNCHANGED notRuns

\* An iteration that sets the duration series only when the usage call
\* returned without error.
RunsRunOmitsOnError ==
  /\ task = "runs"
  /\ runsTask.pc = "runs"
  /\ LET repoFullName == runsTask.repos[runsTask.i]
         run == runsTask.fetchedRuns[runsTask.j]
     IN IF run = Nil \/ run[1].ID = Nil
        THEN /\ runsTask' = AfterRun
             /\ history' = SetSeen(history, <<Observed(repoFullName, run, Nil, Nil)>>,
                                   {}, workflowRunStatusGauge)
             /\ UNCHANGED <<workflowRunStatusGauge, workflowRunDurationGauge>>
        ELSE LET lv == labelValues(repoFullName, run[1], configuredFieldNames)
                 code == numericStatus(run[1])
             IN /\ workflowRunStatusGauge' =
                     WithLabelValuesSet(workflowRunStatusGauge, lv, code)
                /\ IF config.FetchWorkflowRunUsage
                   THEN \E u \in UsageOutcomes :
                          /\ workflowRunDurationGauge' =
                               IF u.err = "none"
                               THEN WithLabelValuesSet(workflowRunDurationGauge, lv,
                                                       durationMs(run[1], u))
                               ELSE workflowRunDurationGauge
                          /\ history' = SetSeen(history,
                               <<Observed(repoFullName, run, Ptr(u), Ptr(<<lv, code>>))>>,
                               {lv}, workflowRunStatusGauge')
                   ELSE /\ UNCHANGED workflowRunDurationGauge
                        /\ history' = SetSeen(history,
                             <<Observed(repoFullName, run, Nil, Ptr(<<lv, code>>))>>,
                             {lv}, workflowRunStatusGauge')
                /\ runsTask' = AfterRun
  /\ UNCHANGED notRuns

\* One iteration of the loop over fetchedRuns: derive, then set the series.
RunsRun ==
  /\ task = "runs"
  /\ runsTask.pc = "runs"
  /\ LET repoFullName == runsTask.repos[runsTask.i]
         run == runsTask.fetchedRuns[runsTask.j]
     IN IF run = Nil \/ run[1].ID = Nil
        THEN /\ runsTask' = AfterRun
             /\ history' = SetSeen(history, <<Observed(repoFullName, run, Nil, Nil)>>,
                                   {}, workflowRunStatusGauge)
             /\ UNCHANGED <<workflowRunStatusGauge, workflowRunDurationGauge>>
        ELSE LET lv == labelValues(repoFullName, run[1], configuredFieldNames)
                 code == numericStatus(run[1])
             IN /\ workflowRunStatusGauge' =
                     WithLabelValuesSet(workflowRunStatusGauge, lv, code)
                /\ IF config.FetchWorkflowRunUsage
                   THEN \E u \in UsageOutcomes :
                          /\ workflowRunDurationGauge' =
                               WithLabelValuesSet(workflowRunDurationGauge, lv,
                                                  durationMs(run[1], u))
                          /\ history' = SetSeen(history,
                               <<Observed(repoFullName, run, Ptr(u), Ptr(<<lv, code>>))>>,
                               {lv}, workflowRunStatusGauge')
                   ELSE /\ UNCHANGED workflowRunDurationGauge
                        /\ history' = SetSeen(history,
                             <<Observed(repoFullName, run, Nil, Ptr(<<lv, code>>))>>,
                             {lv}, workflowRunStatusGauge')
                /\ runsTask' = AfterRun
  /\ UNCHANGED notRuns

\* The end of the loop over the repositories: back to the ticker.  A loop
\* whose length reaches past the array reads stray memory here; what the
\* goroutine makes of it (a fault ends the process) is not followed.
RunsFinish ==
  /\ task = "runs"
  /\ runsTask.pc = "repos"
  /\ runsTask.i > Len(runsTask.repos)
  /\ IF runsTask.stray
     THEN /\ runsTask' = [runsTask EXCEPT !.pc = "fault"]
          /\ UNCHANGED history
     ELSE /\ runsTask' = [runsTask EXCEPT !.pc = "idle"]
          /\ history' = CycleSeen(history,
                                  <<workflowRunStatusGauge, workflowRunDurationGauge>>)
  /\ UNCHANGED <<workflowRunStatusGauge, workflowRunDurationGauge>>
  /\ UNCHANGED notRuns

-----------------------------------------------------------------------------
(* The pagination loops.  The five loops share one skeleton: request the   *)
(* page named by the option, on a rate-limit error sleep and `continue`,   *)
(* on another error leave with what was accumulated, else accumulate the   *)
(* page, stop when NextPage is 0 and follow it otherwise.  They differ in  *)
(* what they accumulate.                                                   *)
(* pager.kind names the loop, pager.pages is the server's sequence of      *)
(* pages, pager.page the Page option, pager.acc the result so far,         *)
(* pager.pc is "loop" or "returned", and pager.log (observation only)      *)
(* lists the requests made: page asked, answer, result held at that time.  *)

Kinds == {"orgRepos", "workflows", "runs", "repoRunners", "orgRunners"}

\* A page of the server: its items and the NextPage of its response.
Page(items, next) == [items |-> items, next |-> next]

\* The answer to a request for page p: Page 0, the option's zero value, is
\* the first page; past the last page the server has nothing and no successor.
ServerPage(pages, p) ==
  LET n == IF p = 0 THEN 1 ELSE p
  IN IF n \in 1..Len(pages) THEN pages[n] ELSE Page(<<>>, 0)

RECURSIVE appendRepos(_, _)
\* getAllReposForOrg: the full names of the page's repositories, appended.
appendRepos(allRepos, reposPage) ==
  IF reposPage = <<>>
  THEN allRepos
  ELSE LET repo == Head(reposPage)
       IN appendRepos(IF repo # Nil /\ repo[1].FullName # Nil
                      THEN Append(allRepos, repo[1].FullName[1])
                      ELSE allRepos,
                      Tail(reposPage))

RECURSIVE storeWorkflows(_, _)
\* getAllWorkflowsForRepo: res[*w.ID] = w for the page's workflows.
storeWorkflows(res, workflowsPage) ==
  IF workflowsPage = <<>>
  THEN res
  ELSE LET w == Head(workflowsPage)
       IN storeWorkflows(IF w # Nil /\ w[1].ID # Nil
                         THEN [id \in DOMAIN res \cup {w[1].ID[1]} |->
                                 IF id = w[1].ID[1] THEN w ELSE res[id]]
                         ELSE res,
                         Tail(workflowsPage))

\* getWorkflowRunsToFetchFromRepo: append(allRuns, runsResponse.WorkflowRuns...)
appendRuns(allRuns, workflowRuns) == allRuns \o workflowRuns

\* getAllRepoRunners: append(allRunners, runnersResponse.Runners...)
appendRepoRunners(allRunners, runners) == allRunners \o runners

\* getAllOrgRunners: append(allRunners, runnersResponse.Runners...)
appendOrgRunners(allRunners, runners) == allRunners \o runners

\* What the loop of a kind does with the items of a page.
Accumulate(kind, acc, items) ==
  CASE kind = "orgRepos" -> appendRepos(acc, items)
    [] kind = "workflows" -> storeWorkflows(acc, items)
    [] kind = "runs" -> appendRuns(acc, items)
    [] kind = "repoRunners" -> appendRepoRunners(acc, items)
    [] kind = "orgRunners" -> appendOrgRunners(acc, items)

\* The request the loop is making, noted.
Logged(p, outcome) ==
  [p EXCEPT !.log = Append(@, [page |-> p.page, outcome |-> outcome, acc |-> p.acc])]

\* The retry starts again from the first page.
onRateLimitRestart(p) == [Logged(p, "ratelimit") EXCEPT !.page = 0]

\* A *github.RateLimitError: sleep until the reset, then `continue`.
onRateLimit(p) == Logged(p, "ratelimit")

\* The error is retried like a rate limit.
onErrorRetry(p) == Logged(p, "error")

\* The partial result is dropped.
onErrorDiscard(p) == [Logged(p, "error") EXCEPT !.pc = "returned", !.acc = <<>>]

\* Any other error: leave the loop with what was accumulated.
onError(p) == [Logged(p, "error") EXCEPT !.pc = "returned"]

\* The loop stops at an empty page instead of at NextPage = 0.
onPageStopWhenEmpty(p) ==
  LET resp == ServerPage(p.pages, p.page)
      q == [Logged(p, "ok") EXCEPT !.acc = Accumulate(p.kind, @, resp.items)]
  IN IF resp.items = <<>>
     THEN [q EXCEPT !.pc = "returned"]
     ELSE [q EXCEPT !.page = IF p.page = 0 THEN 2 ELSE p.page + 1]

\* A page: accumulate it, stop when NextPage is 0, else follow NextPage.
onPage(p) ==
  LET resp == ServerPage(p.pages, p.page)
      q == [Logged(p, "ok") EXCEPT !.acc = Accumulate(p.kind, @, resp.items)]
  IN IF resp.next = 0
     THEN [q EXCEPT !.pc = "returned"]
     ELSE [q EXCEPT !.page = resp.next]

\* Everything but the pagination loop.
notPager == <<config, repositories, workflows, workflowRunStatusGauge,
              workflowRunDurationGauge, runnersGauge, runnersOrganizationGauge,
              workflowBillGauge, fetcher, runsTask, runnersTask, orgRunnersTask,
              billTask, task, history>>

\* The rate-limit answers one loop gets are capped, or it would never end.
MaxRateLimits == 2

RateLimits(log) == Cardinality({i \in 1..Len(log) : log[i].outcome = "ratelimit"})

PageRateLimited ==
  /\ pager.pc = "loop"
  /\ RateLimits(pager.log) < MaxRateLimits
  /\ pager' = onRateLimit(pager)
  /\ UNCHANGED notPager

PageFailed ==
  /\ pager.pc = "loop"
  /\ pager' = onError(pager)
  /\ UNCHANGED notPager

PageFetched ==
  /\ pager.pc = "loop"
  /\ pager' = onPage(pager)
  /\ UNCHANGED notPager

-----------------------------------------------------------------------------
(* Inputs: runs, workflow caches and field lists *)

\* The default of the export_fields option.
DefaultWorkflowFields ==
  << "repo", "workflow_id", "workflow_name", "run_id", "run_number", "run_attempt",
     "event", "status", "conclusion", "head_branch", "derived_target_branch",
     "pr_number", "derived_commit_pr_title", "display_title", "actor_login",
     "triggering_actor_login", "created_at_unix", "updated_at_unix",
     "run_started_at_unix", "path" >>

\* The field names the run loop and getFieldValue recognise.
RecognisedFields ==
  { DefaultWorkflowFields[i] : i \in 1..Len(DefaultWorkflowFields) }
    \cup {"node_id", "head_sha"}

\* A pull-request reference of a run.
PullRequest(number, title, base) == [Number |-> number, Title |-> title, Base |-> base]

\* A run with every attribute present.
BaseRun ==
  [ ID |-> Ptr(41), NodeID |-> Ptr("WFR_41"), HeadBranch |-> Ptr("feature/x"),
    HeadSHA |-> Ptr("c0ffee"), Path |-> Ptr(".github/workflows/ci.yml"),
    RunNumber |-> Ptr(12), RunAttempt |-> Ptr(2), Event |-> Ptr("push"),
    DisplayTitle |-> Ptr("Fix the build"), Status |-> Ptr("completed"),
    Conclusion |-> Ptr("success"), WorkflowID |-> Ptr(7),
    PullRequests |-> <<>>,
    Actor |-> Ptr([Login |-> Ptr("alice")]),
    TriggeringActor |-> Ptr([Login |-> Ptr("bob")]),
    CreatedAt |-> Ptr(TimeAt(100000000)), UpdatedAt |-> Ptr(TimeAt(107500000)),
    RunStartedAt |-> Ptr(TimeAt(102500000)),
    HeadCommit |-> Ptr([Message |-> Ptr(<<"f", "i", "x", "\n", "b">>)]) ]

\* A run with every attribute absent.
NilRun ==
  [ ID |-> Nil, NodeID |-> Nil, HeadBranch |-> Nil, HeadSHA |-> Nil, Path |-> Nil,
    RunNumber |-> Nil, RunAttempt |-> Nil, Event |-> Nil, DisplayTitle |-> Nil,
    Status |-> Nil, Conclusion |-> Nil, WorkflowID |-> Nil, PullRequests |-> <<>>,
    Actor |-> Nil, TriggeringActor |-> Nil, CreatedAt |-> Nil, UpdatedAt |-> Nil,
    RunStartedAt |-> Nil, HeadCommit |-> Nil ]

StatusInputs ==
  { Nil, Ptr(""), Ptr("completed"), Ptr("in_progress"), Ptr("requested"),
    Ptr("waiting"), Ptr("queued"), Ptr("action_required"), Ptr("stale"),
    Ptr("pending"), Ptr("Completed") }

ConclusionInputs ==
  { Nil, Ptr(""), Ptr("success"), Ptr("failure"), Ptr("skipped"), Ptr("cancelled"),
    Ptr("neutral"), Ptr("timed_out"), Ptr("startup_failure"), Ptr("stale") }

\* Runs over every (status, conclusion) pair.
StatusRuns ==
  { [BaseRun EXCEPT !.Status = s, !.Conclusion = c] :
      s \in StatusInputs, c \in ConclusionInputs }

PullRequestInputs ==
  { <<>>,
    <<Nil>>,
    <<Ptr(PullRequest(Nil, Nil, Nil))>>,
    <<Ptr(PullRequest(Ptr(5), Ptr("Add x"), Ptr([Ref |-> Nil])))>>,
    <<Ptr(PullRequest(Ptr(5), Ptr("Add x"), Ptr([Ref |-> Ptr("main")])))>>,
    <<Ptr(PullRequest(Ptr(5), Nil, Ptr([Ref |-> Ptr("main")]))),
      Ptr(PullRequest(Ptr(6), Ptr("Other"), Ptr([Ref |-> Ptr("dev")])))>> }

MessageInputs ==
  { Nil,
    Ptr([Message |-> Nil]),
    Ptr([Message |-> Ptr(<<>>)]),
    Ptr([Message |-> Ptr(<<" ", "f", "i", "x", "\t", "\n", "b", "\n">>)]),
    Ptr([Message |-> Ptr(<<"\n", "b">>)]) }

\* Runs over the attributes the derived fields read.
DerivedRuns ==
  { [BaseRun EXCEPT !.Event = e, !.PullRequests = prs, !.HeadBranch = hb,
                    !.DisplayTitle = dt, !.HeadCommit = hc] :
      e \in {Nil, Ptr("push"), Ptr("pull_request")},
      prs \in PullRequestInputs,
      hb \in {Nil, Ptr("release"), Ptr("feature/x")},
      dt \in {Nil, Ptr(""), Ptr("Title")},
      hc \in MessageInputs }

TimeInputs == { Nil, Ptr(ZeroTime), Ptr(TimeAt(102500000)), Ptr(TimeAt(107500000)),
                Ptr(TimeAt(107500999)), Ptr(TimeAt(-1500000)) }

\* Runs over the timestamps and the statuses the duration reads.
TimedRuns ==
  { [BaseRun EXCEPT !.RunStartedAt = s, !.UpdatedAt = u, !.Status = st] :
      s \in TimeInputs, u \in TimeInputs,
      st \in {Ptr("completed"), Ptr("stale"), Ptr("in_progress")} }

\* Runs with one group of scalar attributes absent.
ScalarRuns ==
  { NilRun,
    [NilRun EXCEPT !.ID = Ptr(41)],
    [BaseRun EXCEPT !.ID = Nil],
    [BaseRun EXCEPT !.NodeID = Nil, !.HeadSHA = Nil, !.Path = Nil],
    [BaseRun EXCEPT !.RunNumber = Nil, !.RunAttempt = Nil, !.WorkflowID = Nil],
    [BaseRun EXCEPT !.Actor = Nil, !.TriggeringActor = Ptr([Login |-> Nil])],
    [BaseRun EXCEPT !.Actor = Ptr([Login |-> Nil]), !.TriggeringActor = Nil],
    [BaseRun EXCEPT !.CreatedAt = Nil, !.WorkflowID = Ptr(8)],
    [BaseRun EXCEPT !.CreatedAt = Ptr(ZeroTime), !.WorkflowID = Ptr(0)] }

\* A workflow definition.
Workflow(id, name) ==
  [ID |-> Ptr(id), Name |-> name, NodeID |-> Ptr("W_" \o ToString(id)),
   State |-> Ptr("active")]

\* Snapshots of the workflow cache: empty, other repository, other id,
\* definition without a name, definition with a name.
CacheInputs ==
  { <<>>,
    [r \in {"o/b"} |-> [id \in {7} |-> Ptr(Workflow(7, Ptr("CI")))]],
    [r \in {"o/a"} |-> [id \in {8} |-> Ptr(Workflow(8, Ptr("Deploy")))]],
    [r \in {"o/a"} |-> [id \in {7} |-> Ptr(Workflow(7, Nil))]],
    [r \in {"o/a"} |-> [id \in {0, 7} |->
        IF id = 7 THEN Ptr(Workflow(7, Ptr("CI"))) ELSE Ptr(Workflow(0, Ptr("Zero")))]] }

\* The longest field list drawn from ShortFieldNames.
MaxFields == 2

ShortFieldNames ==
  {"repo", "status", "workflow_name", "derived_target_branch", "node_id", "bogus", ""}

\* Field lists: the default one, and every list of at most MaxFields short names.
FieldListInputs ==
  {DefaultWorkflowFields}
    \cup UNION { [1..n -> ShortFieldNames] : n \in 1..MaxFields }

\* The options of the model; Repositories and Organizations are the two
\* string-slice options, WorkflowFields the split export_fields.
Config(repos, orgas, fields, usage) ==
  [Repositories |-> repos, Organizations |-> orgas, WorkflowFields |-> fields,
   FetchWorkflowRunUsage |-> usage]

\* The value of a goroutine's variable in a specification that leaves the
\* goroutine out.
Unused == [pc |-> "unused"]

-----------------------------------------------------------------------------
(* SpecDerive: the body of the run loop on one fetched run.  The collector *)
(* has reset its gauges and fetched one run for its one repository.        *)

InitDerive ==
  \E run \in StatusRuns \cup DerivedRuns \cup TimedRuns \cup ScalarRuns,
     fields \in FieldListInputs, cache \in CacheInputs, usage \in BOOLEAN,
     nilRun \in BOOLEAN :
    /\ fields = DefaultWorkflowFields \/ run \in ScalarRuns
    /\ nilRun => run = NilRun
    /\ config = Config(<<"o/a">>, <<>>, fields, usage)
    /\ repositories = <<"o/a">>
    /\ workflows = cache
    /\ workflowRunStatusGauge = EmptyGauge
    /\ workflowRunDurationGauge = EmptyGauge
    /\ runsTask = [pc |-> "runs", repos |-> <<"o/a">>, stray |-> FALSE, i |-> 1,
                   fetchedRuns |-> <<IF nilRun THEN Nil ELSE Ptr(run)>>, j |-> 1]
    /\ history = NoHistory
    /\ runnersGauge = EmptyGauge
    /\ runnersOrganizationGauge = EmptyGauge
    /\ workflowBillGauge = EmptyGauge
    /\ fetcher = Unused
    /\ runnersTask = Unused
    /\ orgRunnersTask = Unused
    /\ billTask = Unused
    /\ pager = Unused
    /\ task = "runs"

NextDerive == RunsRun \/ RunsFinish

SpecDerive == InitDerive /\ [][NextDerive]_vars

-----------------------------------------------------------------------------
(* SpecPage: one pagination loop against a server that holds a sequence of *)
(* pages and may answer any request with a rate-limit error or with        *)
(* another error.                                                          *)

\* A repository of an organisation listing.
Repository(fullName) == [FullName |-> fullName]

\* A self-hosted runner.
Runner(id, name, os, status, busy) ==
  [ID |-> id, Name |-> name, OS |-> os, Status |-> status, Busy |-> busy]

\* The pages a server may hold for each loop: an empty page, a page with a
\* null item, a page with an item that lacks its key and a repeated item;
\* for the runners also a page of runners that lack one attribute each or
\* have a status that is not "online".
PageItems(kind) ==
  CASE kind = "orgRepos" ->
         { <<>>,
           <<Ptr(Repository(Ptr("o/a"))), Nil>>,
           <<Ptr(Repository(Nil)), Ptr(Repository(Ptr("o/b"))),
             Ptr(Repository(Ptr("o/a")))>> }
    [] kind = "workflows" ->
         { <<>>,
           <<Ptr(Workflow(7, Ptr("CI"))), Nil>>,
           <<Ptr([Workflow(9, Ptr("Lint")) EXCEPT !.ID = Nil]),
             Ptr(Workflow(7, Ptr("CI renamed"))), Ptr(Workflow(8, Nil))>> }
    [] kind = "runs" ->
         { <<>>,
           <<Ptr(BaseRun), Nil>>,
           <<Ptr([BaseRun EXCEPT !.ID = Nil]),
             Ptr([BaseRun EXCEPT !.ID = Ptr(42), !.Conclusion = Ptr("failure")]),
             Ptr(BaseRun)>> }
    [] kind \in {"repoRunners", "orgRunners"} ->
         { <<>>,
           <<Ptr(Runner(Ptr(1), Ptr("r1"), Ptr("linux"), Ptr("online"), Ptr(FALSE))), Nil>>,
           <<Ptr(Runner(Nil, Ptr("r0"), Ptr("linux"), Ptr("online"), Ptr(FALSE))),
             Ptr(Runner(Ptr(2), Ptr("r2"), Ptr("macos"), Ptr("offline"), Ptr(TRUE))),
             Ptr(Runner(Ptr(1), Ptr("r1"), Ptr("linux"), Ptr("online"), Ptr(FALSE)))>>,
           <<Ptr(Runner(Ptr(3), Nil, Ptr("linux"), Ptr("online"), Ptr(FALSE))),
             Ptr(Runner(Ptr(4), Ptr("r4"), Nil, Ptr("online"), Ptr(FALSE))),
             Ptr(Runner(Ptr(5), Ptr("r5"), Ptr("linux"), Nil, Ptr(FALSE))),
             Ptr(Runner(Ptr(6), Ptr("r6"), Ptr("linux"), Ptr("online"), Nil)),
             Ptr(Runner(Ptr(7), Ptr("r7"), Ptr("windows"), Ptr("Online"), Ptr(FALSE))),
             Ptr(Runner(Ptr(8), Ptr("r8"), Ptr("linux"), Ptr(""), Ptr(TRUE)))>> }

\* The most pages a server holds.
MaxPages == 3

\* The servers of a loop: up to MaxPages pages, each page but the last
\* pointing to its successor or, where the listing ends early, to nothing.
Servers(kind) ==
  UNION { { [n \in 1..len |->
               Page(items[n], IF n = len \/ n \in ends THEN 0 ELSE n + 1)] :
              items \in [1..len -> PageItems(kind)],
              ends \in SUBSET (1..(len - 1)) } :
          len \in 1..MaxPages }

InitPage ==
  \E kind \in Kinds :
    \E pages \in Servers(kind) :
      /\ pager = [kind |-> kind, pages |-> pages, page |-> 0, acc |-> <<>>,
                  pc |-> "loop", log |-> <<>>]
      /\ config = Config(<<>>, <<"o">>, DefaultWorkflowFields, TRUE)
      /\ repositories = <<>>
      /\ workflows = <<>>
      /\ workflowRunStatusGauge = EmptyGauge
      /\ workflowRunDurationGauge = EmptyGauge
      /\ runnersGauge = EmptyGauge
      /\ runnersOrganizationGauge = EmptyGauge
      /\ workflowBillGauge = EmptyGauge
      /\ fetcher = Unused
      /\ runsTask = Unused
      /\ runnersTask = Unused
      /\ orgRunnersTask = Unused
      /\ billTask = Unused
      /\ history = NoHistory
      /\ task = "page"

NextPage == PageRateLimited \/ PageFailed \/ PageFetched

SpecPage == InitPage /\ [][NextPage]_vars

\* The loop is a running goroutine: while it has a request to make or an
\* answer to handle, it does.
SpecPageFair == SpecPage /\ WF_vars(NextPage)

\* The number of the page a request with option `page` asks for.
PageNumber(page) == IF page = 0 THEN 1 ELSE page

\* The first page whose NextPage is 0.
LastPage(pages) ==
  CHOOSE n \in 1..Len(pages) :
    pages[n].next = 0 /\ \A m \in 1..(n - 1) : pages[m].next # 0

RECURSIVE ItemsUpTo(_, _)
\* The items of pages 1..k, in order.
ItemsUpTo(pages, k) ==
  IF k = 0 THEN <<>> ELSE ItemsUpTo(pages, k - 1) \o pages[k].items

\* The key of an item under which a loop keeps it, Nil when it keeps none.
KeyOf(kind, item) ==
  CASE item = Nil -> Nil
    [] kind = "orgRepos" -> item[1].FullName
    [] kind = "workflows" -> item[1].ID
    [] OTHER -> Ptr(item)

\* What a loop is to return for the items `items` of the pages it read:
\* the runs and runner loops the items themselves, the repository loop the
\* full names of the items that have one, the workflow loop the map from
\* each id to the last item with that id.
Kept(kind, items) ==
  LET keyed == SelectSeq(items, LAMBDA it : KeyOf(kind, it) # Nil) IN
  CASE kind = "orgRepos" -> [i \in 1..Len(keyed) |-> keyed[i][1].FullName[1]]
    [] kind = "workflows" ->
         [id \in {keyed[i][1].ID[1] : i \in 1..Len(keyed)} |->
            keyed[CHOOSE i \in 1..Len(keyed) :
                    /\ keyed[i][1].ID[1] = id
                    /\ \A j \in (i + 1)..Len(keyed) : keyed[j][1].ID[1] # id]]
    [] OTHER -> items

\* The result holds every item of `items`, once each and in order.
HoldsAll(kind, acc, items) ==
  CASE kind = "orgRepos" ->
         /\ Len(acc) = Len(items)
         /\ \A i \in 1..Len(items) : KeyOf(kind, items[i]) = Ptr(acc[i])
    [] kind = "workflows" ->
         /\ Cardinality(DOMAIN acc) = Len(items)
         /\ \A i \in 1..Len(items) :
              /\ KeyOf(kind, items[i]) # Nil
              /\ KeyOf(kind, items[i])[1] \in DOMAIN acc
              /\ acc[KeyOf(kind, items[i])[1]] = items[i]
    [] OTHER -> acc = items

Returned == pager.pc = "returned"

Outcomes == {pager.log[i].outcome : i \in 1..Len(pager.log)}

\* The pages asked for, in the order of the requests.
Requested == [i \in 1..Len(pager.log) |-> PageNumber(pager.log[i].page)]

\* The run the collector of SpecDerive was given (a pointer).
GivenRun == runsTask.fetchedRuns[1]

\* The run has gone through the loop body and was published.
Published == runsTask.pc # "runs" /\ GivenRun # Nil /\ GivenRun[1].ID # Nil

\* The status table of the specification.
CompletedCodes ==
  [success |-> 1, failure |-> 0, skipped |-> 2, cancelled |-> 5, neutral |-> 6,
   timed_out |-> 7]

OtherCodes ==
  [in_progress |-> 3, requested |-> 3, waiting |-> 3, queued |-> 4,
   action_required |-> 9, stale |-> 10]

TableCode(status, conclusion) ==
  IF status = "completed"
  THEN IF conclusion \in DOMAIN CompletedCodes THEN CompletedCodes[conclusion] ELSE 8
  ELSE IF status \in DOMAIN OtherCodes THEN OtherCodes[status] ELSE 99

AbsentAsEmpty(p) == IF p = Nil THEN "" ELSE p[1]

\* C1: the status code published for a run is the one the table gives for
\* its (status, conclusion) pair, absent values read as the empty string:
\* exactly one series is published and its value is the table's code.
C1_StatusCodeByTable ==
  Published =>
    /\ Cardinality(DOMAIN workflowRunStatusGauge) = 1
    /\ \A lv \in DOMAIN workflowRunStatusGauge :
         workflowRunStatusGauge[lv] =
           TableCode(AbsentAsEmpty(GivenRun[1].Status),
                     AbsentAsEmpty(GivenRun[1].Conclusion))

\* A completed run without a conclusion was published with the catch-all 8.
C1_Witness ==
  /\ Published
  /\ GivenRun[1].Status = Ptr("completed")
  /\ GivenRun[1].Conclusion = Nil
  /\ \E lv \in DOMAIN workflowRunStatusGauge : workflowRunStatusGauge[lv] = 8

\* C10: the label vector of a published run has one value per configured
\* field name, in the configured order: the value at position i is the value
\* of field i alone, "repo" yields the repository, "status" the status, and
\* a name that is not recognised yields the empty string at its position.
C10_OneValuePerFieldInOrder ==
  Published =>
    /\ DOMAIN workflowRunStatusGauge # {}
    /\ \A lv \in DOMAIN workflowRunStatusGauge :
         /\ Len(lv) = Len(config.WorkflowFields)
         /\ \A i \in 1..Len(config.WorkflowFields) :
              LET f == config.WorkflowFields[i] IN
              /\ lv[i] = labelValues("o/a", GivenRun[1], <<f>>)[1]
              /\ f = "repo" => lv[i] = "o/a"
              /\ f = "status" => lv[i] = AbsentAsEmpty(GivenRun[1].Status)
              /\ f \notin RecognisedFields => lv[i] = ""

\* An unrecognised name before "repo": the vector is <<"", "o/a">>.
C10_Witness ==
  /\ Published
  /\ config.WorkflowFields = <<"bogus", "repo">>
  /\ <<"", "o/a">> \in DOMAIN workflowRunStatusGauge

-----------------------------------------------------------------------------
(* The pagination loops: what they request and what they return *)

\* The loop returned and every request it made was answered with a page.
ReturnedUndisturbed == Returned /\ Outcomes = {"ok"}

\* C2: when no request fails, each loop requests pages 1, 2, .. up to the
\* first page whose next-page cursor is zero, each exactly once and nothing
\* after it, and returns what it keeps of the items of these pages in page
\* order: the runs loop and both runner loops the concatenation of the items,
\* the repository loop the full names of the items that are not null and
\* have one, the workflow loop the map from each id to the last item that
\* is not null and has that id.
C2_EachPageOnceAndKeptItemsReturned ==
  ReturnedUndisturbed =>
    LET k == LastPage(pager.pages) IN
    /\ Requested = [n \in 1..k |-> n]
    /\ pager.acc = Kept(pager.kind, ItemsUpTo(pager.pages, k))
    /\ pager.kind \in {"runs", "repoRunners", "orgRunners"} =>
         pager.acc = ItemsUpTo(pager.pages, k)

\* The statement as written: the value returned holds every item of every
\* page read, once each, in page order.
C2_ConcatenationOfAllItemsReturned ==
  ReturnedUndisturbed =>
    LET k == LastPage(pager.pages) IN
    /\ Requested = [n \in 1..k |-> n]
    /\ HoldsAll(pager.kind, pager.acc, ItemsUpTo(pager.pages, k))

\* Three pages were held, the second ended the listing, and the workflow
\* loop returned fewer definitions than the two pages had items.
C2_Witness ==
  /\ ReturnedUndisturbed
  /\ pager.kind = "workflows"
  /\ Len(pager.pages) = 3
  /\ Requested = <<1, 2>>
  /\ Cardinality(DOMAIN pager.acc) = 2
  /\ Len(ItemsUpTo(pager.pages, 2)) = 5

\* C3: the pagination loop eventually returns, whatever errors its requests
\* meet; a request answered with an error other than a rate limit is the
\* last request the loop makes, and the loop returns with the result it
\* held when it made that request.
C3_PaginationTerminates ==
  /\ <>Returned
  /\ [](\A i \in 1..Len(pager.log) :
          pager.log[i].outcome = "error" =>
            /\ i = Len(pager.log)
            /\ Returned
            /\ pager.acc = pager.log[i].acc)

\* The second of three pages was answered with an error and the loop
\* returned after two requests with the kept items of the first page.
C3_Witness ==
  /\ Returned
  /\ Len(pager.pages) = 3
  /\ LastPage(pager.pages) = 3
  /\ Len(pager.log) = 2
  /\ pager.log[2] = [page |-> 2, outcome |-> "error", acc |-> pager.acc]
  /\ pager.acc # <<>>

\* C4: a request answered with a rate-limit error is followed by a request
\* for the same page, made with the same accumulated result; and a loop
\* that met rate limits but no other error returns what it returns when
\* undisturbed: the kept items of all pages, none lost, none twice.
C4_RateLimitRetriesSamePage ==
  /\ \A i \in 1..Len(pager.log) :
       pager.log[i].outcome = "ratelimit" =>
         IF i < Len(pager.log)
         THEN /\ pager.log[i + 1].page = pager.log[i].page
              /\ pager.log[i + 1].acc = pager.log[i].acc
         ELSE /\ pager.pc = "loop"
              /\ pager.page = pager.log[i].page
              /\ pager.acc = pager.log[i].acc
  /\ (Returned /\ "error" \notin Outcomes) =>
       pager.acc = Kept(pager.kind, ItemsUpTo(pager.pages, LastPage(pager.pages)))

\* Page 2 was rate limited, asked for again and answered; the runs loop
\* returned the items of both pages.
C4_Witness ==
  /\ Returned
  /\ pager.kind = "runs"
  /\ [i \in 1..Len(pager.log) |-> pager.log[i].outcome] = <<"ok", "ratelimit", "ok">>
  /\ [i \in 1..Len(pager.log) |-> pager.log[i].page] = <<0, 2, 2>>
  /\ pager.log[2].acc # <<>>
  /\ Len(pager.acc) > Len(pager.log[2].acc)

\* C5: a request for page p answered with an error other than a rate limit
\* is the loop's last request, and the loop returns what it keeps of the
\* items of pages 1..p-1 in page order: the runs loop and both runner loops
\* the concatenation of the items, the repository loop the full names of the
\* items that are not null and have one, the workflow loop the map from each
\* id to the last item that is not null and has that id.
C5_ErrorStopsWithKeptItemsOfEarlierPages ==
  \A i \in 1..Len(pager.log) :
    pager.log[i].outcome = "error" =>
      LET p == PageNumber(pager.log[i].page) IN
      /\ i = Len(pager.log)
      /\ Returned
      /\ pager.acc = Kept(pager.kind, ItemsUpTo(pager.pages, p - 1))
      /\ pager.kind \in {"runs", "repoRunners", "orgRunners"} =>
           pager.acc = ItemsUpTo(pager.pages, p - 1)

\* The statement as written: the value returned holds every item of pages
\* 1..p-1, once each, in page order.
C5_ErrorStopsWithAllItemsOfEarlierPages ==
  \A i \in 1..Len(pager.log) :
    pager.log[i].outcome = "error" =>
      LET p == PageNumber(pager.log[i].page) IN
      /\ i = Len(pager.log)
      /\ Returned
      /\ HoldsAll(pager.kind, pager.acc, ItemsUpTo(pager.pages, p - 1))

\* Page 3 of the repository listing failed; the loop returned the names of
\* pages 1 and 2, fewer than the items of these pages.
C5_Witness ==
  /\ Returned
  /\ pager.kind = "orgRepos"
  /\ Len(pager.log) = 3
  /\ pager.log[3].outcome = "error"
  /\ pager.log[3].page = 3
  /\ pager.acc # <<>>
  /\ Len(pager.acc) < Len(ItemsUpTo(pager.pages, 2))

-----------------------------------------------------------------------------
(* The refresher, periodicGithubFetcher.                                   *)
(* fetcher.pc: "resolve" at the top of the loop, "build" after the         *)
(* assignment of repositories, "publish" after the assignment of           *)
(* workflows, "wait" at the receive from the ticker.                       *)
(* The client is set before the goroutine starts, so the branch that       *)
(* sleeps on a nil client is never taken.                                  *)

\* The refresher before its first refresh.  Beside pc the observer keeps
\* listed, the organizations getAllReposForOrg was called for in the last
\* refresh, produced, the reposToProcess of that refresh, fetched, what
\* getAllWorkflowsForRepo returned in that refresh, by repository, built,
\* the newWorkflowsData of that refresh, and replaced, the list the assignment
\* of repositories has just overwritten (empty again once the refresher
\* has gone on).
StartingFetcher ==
  [pc |-> "resolve", listed |-> <<>>, produced |-> <<>>, fetched |-> <<>>,
   built |-> <<>>, replaced |-> <<>>]

\* What one of the five fetches may return: what its loop makes of a page.
Fetched(kind) == { Accumulate(kind, <<>>, items) : items \in PageItems(kind) }

\* How a fetch of a collector may end: on the page without successor, or on
\* an error that is not a rate limit, with what the pages before it gave
\* (nothing when the first request failed).
FetchOutcomes(kind) ==
  { [result |-> r, failed |-> f] : r \in Fetched(kind), f \in BOOLEAN }

RECURSIVE reposOfOrgs(_, _)
\* The loop over the organizations: the repositories of each organization
\* with a name, appended; found[k] is what getAllReposForOrg returns for the
\* organization at position k.
reposOfOrgs(orgas, found) ==
  IF orgas = <<>>
  THEN <<>>
  ELSE (IF Head(orgas) # "" THEN Head(found) ELSE <<>>)
         \o reposOfOrgs(Tail(orgas), Tail(found))

\* A list that is taken as it comes, duplicates included.
uniqueReposListKeepsAll(reposToProcess, uniqueReposMap) == reposToProcess

RECURSIVE uniqueReposListKeepsLast(_, _)
\* A deduplication that keeps the last occurrence of each name.
uniqueReposListKeepsLast(reposToProcess, uniqueReposMap) ==
  IF reposToProcess = <<>>
  THEN <<>>
  ELSE IF \E k \in 2..Len(reposToProcess) : reposToProcess[k] = Head(reposToProcess)
       THEN uniqueReposListKeepsLast(Tail(reposToProcess), uniqueReposMap)
       ELSE <<Head(reposToProcess)>>
              \o uniqueReposListKeepsLast(Tail(reposToProcess), uniqueReposMap)

RECURSIVE uniqueReposList(_, _)
\* The deduplication: the first occurrence of each name, in order.
uniqueReposList(reposToProcess, uniqueReposMap) ==
  IF reposToProcess = <<>>
  THEN <<>>
  ELSE IF Head(reposToProcess) \in uniqueReposMap
       THEN uniqueReposList(Tail(reposToProcess), uniqueReposMap)
       ELSE <<Head(reposToProcess)>>
              \o uniqueReposList(Tail(reposToProcess),
                                 uniqueReposMap \cup {Head(reposToProcess)})

\* The elements of a sequence.
Range(seq) == { seq[i] : i \in 1..Len(seq) }

\* Everything but the refresher and the two globals it writes.
notFetcher == <<config, workflowRunStatusGauge, workflowRunDurationGauge,
                runnersGauge, runnersOrganizationGauge, workflowBillGauge,
                runsTask, runnersTask, orgRunnersTask, billTask, pager, task,
                history>>

\* What the calls of getAllReposForOrg of one refresh may return, by the
\* position of the organization: no call is made beside an explicit list.
Listings(c) ==
  IF Len(c.Repositories) > 0
  THEN { <<>> }
  ELSE [1..Len(c.Organizations) -> Fetched("orgRepos")]

\* The organizations getAllReposForOrg is called for, in call order.
listedOrgs(c) ==
  IF Len(c.Repositories) > 0
  THEN <<>>
  ELSE SelectSeq(c.Organizations, LAMBDA orga : orga # "")

\* reposToProcess: the explicit list when there is one, else the
\* repositories found for the organizations.
reposToProcess(c, found) ==
  IF Len(c.Repositories) > 0
  THEN c.Repositories
  ELSE reposOfOrgs(c.Organizations, found)

\* The repository lists a refresh may resolve under the options c, without
\* duplicates.
Resolved(c) ==
  { uniqueReposList(reposToProcess(c, found), {}) : found \in Listings(c) }

\* What the calls of getAllWorkflowsForRepo of one refresh may return, by
\* repository: a call is made for each owner/name of the list.
WorkflowFetches(repos) ==
  [{ r \in Range(repos) : Len(ownerAndRepo(r)) = 2 } -> Fetched("workflows")]

\* A map that gets an entry for every repository a call was made for.
storeFetchedAlways(workflowsForRepo) == workflowsForRepo

\* newWorkflowsData at the end of the loop over the list: what was fetched
\* is stored for the repositories with at least one definition.
storeFetched(workflowsForRepo) ==
  [r \in { v \in DOMAIN workflowsForRepo : Cardinality(DOMAIN workflowsForRepo[v]) > 0 }
     |-> workflowsForRepo[r]]

\* The caches a refresh may build for a repository list.
Built(repos) ==
  { storeFetched(workflowsForRepo) : workflowsForRepo \in WorkflowFetches(repos) }

\* The first half of a refresh: the repository list is resolved and
\* assigned; without configuration both globals are emptied and the
\* refresher waits for its next tick.
FetcherResolve ==
  /\ fetcher.pc = "resolve"
  /\ IF Len(config.Repositories) > 0 \/ Len(config.Organizations) > 0
     THEN \E found \in Listings(config) :
            /\ repositories' = uniqueReposList(reposToProcess(config, found), {})
            /\ fetcher' = [fetcher EXCEPT !.pc = "build",
                                          !.listed = listedOrgs(config),
                                          !.produced = reposToProcess(config, found),
                                          !.replaced = repositories]
            /\ UNCHANGED workflows
     ELSE /\ repositories' = <<>>
          /\ workflows' = <<>>
          /\ fetcher' = [pc |-> "wait", listed |-> <<>>, produced |-> <<>>,
                         fetched |-> <<>>, built |-> <<>>, replaced |-> <<>>]
  /\ UNCHANGED notFetcher

\* The most stores of one refresh a reader that sees the assignment of the
\* global misses.
MaxUnseen == 1

RECURSIVE Sum(_, _)
\* The sum of f over the set S.
Sum(f, S) ==
  IF S = {} THEN 0
  ELSE LET x == CHOOSE y \in S : TRUE IN f[x] + Sum(f, S \ {x})

\* The views of the map built by a refresh that a load without
\* synchronisation may return: a key or an entry of an inner map that was
\* stored before the assignment of the global need not be seen by a reader
\* that already sees the assignment.
Views(built) ==
  LET allIds == UNION { DOMAIN built[r] : r \in DOMAIN built }
      unseen(seen, ids) ==
        Cardinality(DOMAIN built \ seen)
          + Sum([r \in seen |-> Cardinality(DOMAIN built[r] \ ids[r])], seen)
  IN UNION { { [r \in seen |-> [id \in ids[r] |-> built[r][id]]] :
                 ids \in { f \in [seen -> SUBSET allIds] :
                             /\ \A r \in seen : f[r] \subseteq DOMAIN built[r]
                             /\ unseen(seen, f) <= MaxUnseen } } :
             seen \in SUBSET DOMAIN built }

\* A second half that leaves the cache alone when the list is empty.
FetcherBuildUnlessEmpty ==
  /\ fetcher.pc = "build"
  /\ IF repositories = <<>>
     THEN /\ fetcher' = [fetcher EXCEPT !.pc = "wait", !.replaced = <<>>]
          /\ UNCHANGED workflows
     ELSE \E workflowsForRepo \in WorkflowFetches(repositories) :
            LET newWorkflowsData == storeFetched(workflowsForRepo) IN
            /\ workflows' \in Views(newWorkflowsData)
            /\ fetcher' = [fetcher EXCEPT
                 !.pc = IF workflows' = newWorkflowsData THEN "wait" ELSE "publish",
                 !.fetched = workflowsForRepo,
                 !.built = newWorkflowsData,
                 !.replaced = <<>>]
  /\ UNCHANGED repositories
  /\ UNCHANGED notFetcher

\* A second half that stores what it fetched into the map of the refresh
\* before and leaves the entries of the other repositories in it.
FetcherBuildKeepsOldEntries ==
  /\ fetcher.pc = "build"
  /\ \E workflowsForRepo \in WorkflowFetches(repositories) :
       LET newWorkflowsData == storeFetched(workflowsForRepo) IN
       /\ workflows' = [r \in DOMAIN workflows \cup DOMAIN newWorkflowsData |->
                          IF r \in DOMAIN newWorkflowsData
                          THEN newWorkflowsData[r]
                          ELSE workflows[r]]
       /\ fetcher' = [fetcher EXCEPT !.pc = "wait", !.fetched = workflowsForRepo,
                                     !.built = newWorkflowsData, !.replaced = <<>>]
  /\ UNCHANGED repositories
  /\ UNCHANGED notFetcher

\* The second half: the definitions of every repository of the list are
\* fetched into a new map, which is assigned to the global.  No lock, channel
\* or atomic orders the assignment and the stores that filled the map with
\* the loads of the collectors: workflows (what a load returns) becomes the
\* new map at once, or one of its other views until the refresher settles.
\* (A load that still returns the map of the refresh before is a load in a
\* state before this step.)
FetcherBuild ==
  /\ fetcher.pc = "build"
  /\ \E workflowsForRepo \in WorkflowFetches(repositories) :
       LET newWorkflowsData == storeFetched(workflowsForRepo) IN
       /\ workflows' \in Views(newWorkflowsData)
       /\ fetcher' = [fetcher EXCEPT
            !.pc = IF workflows' = newWorkflowsData THEN "wait" ELSE "publish",
            !.fetched = workflowsForRepo,
            !.built = newWorkflowsData,
            !.replaced = <<>>]
  /\ UNCHANGED repositories
  /\ UNCHANGED notFetcher

\* The refresher settles: every store of the refresh is seen by every
\* reader, well before the ticker fires again.
FetcherSettle ==
  /\ fetcher.pc = "publish"
  /\ workflows' = fetcher.built
  /\ fetcher' = [fetcher EXCEPT !.pc = "wait"]
  /\ UNCHANGED repositories
  /\ UNCHANGED notFetcher

\* The ticker of the refresher fires.
FetcherTick ==
  /\ fetcher.pc = "wait"
  /\ fetcher' = [fetcher EXCEPT !.pc = "resolve"]
  /\ UNCHANGED <<repositories, workflows>>
  /\ UNCHANGED notFetcher

-----------------------------------------------------------------------------
(* The workflow-run collector, continued: the loop over the repositories *)

\* An iteration that leaves the loop over the repositories when the fetch
\* ended on an error.
RunsRepoStopsOnError ==
  /\ task = "runs"
  /\ runsTask.pc = "repos"
  /\ runsTask.i <= Len(runsTask.repos)
  /\ IF Len(ownerAndRepo(runsTask.repos[runsTask.i])) # 2
     THEN /\ runsTask' = [runsTask EXCEPT !.i = @ + 1]
          /\ UNCHANGED history
     ELSE \E fetch \in FetchOutcomes("runs") :
            /\ runsTask' =
                 IF fetch.failed
                 THEN [runsTask EXCEPT !.i = Len(runsTask.repos) + 1]
                 ELSE IF fetch.result = <<>>
                      THEN [runsTask EXCEPT !.i = @ + 1]
                      ELSE [runsTask EXCEPT !.pc = "runs", !.fetchedRuns = fetch.result,
                                            !.j = 1]
            /\ history' = FetchSeen(history, runsTask.repos[runsTask.i], fetch)
  /\ UNCHANGED <<workflowRunStatusGauge, workflowRunDurationGauge>>
  /\ UNCHANGED notRuns

\* An iteration that goes on to the next repository when the fetch ended on
\* an error, whatever the fetch returned.
RunsRepoSkipsOnError ==
  /\ task = "runs"
  /\ runsTask.pc = "repos"
  /\ runsTask.i <= Len(runsTask.repos)
  /\ IF Len(ownerAndRepo(runsTask.repos[runsTask.i])) # 2
     THEN /\ runsTask' = [runsTask EXCEPT !.i = @ + 1]
          /\ UNCHANGED history
     ELSE \E fetch \in FetchOutcomes("runs") :
            /\ runsTask' =
                 IF fetch.failed \/ fetch.result = <<>>
                 THEN [runsTask EXCEPT !.i = @ + 1]
                 ELSE [runsTask EXCEPT !.pc = "runs", !.fetchedRuns = fetch.result,
                                       !.j = 1]
            /\ history' = FetchSeen(history, runsTask.repos[runsTask.i], fetch)
  /\ UNCHANGED <<workflowRunStatusGauge, workflowRunDurationGauge>>
  /\ UNCHANGED notRuns

\* An iteration that reads the global list anew: the element at the
\* loop's index in whatever list the refresher has assigned by now.
RunsRepoRangesOverGlobal ==
  /\ task = "runs"
  /\ runsTask.pc = "repos"
  /\ runsTask.i <= Len(repositories)
  /\ IF Len(ownerAndRepo(repositories[runsTask.i])) # 2
     THEN /\ runsTask' = [runsTask EXCEPT !.i = @ + 1]
          /\ UNCHANGED history
     ELSE \E fetch \in FetchOutcomes("runs") :
            /\ runsTask' =
                 IF fetch.result = <<>>
                 THEN [runsTask EXCEPT !.i = @ + 1]
                 ELSE [runsTask EXCEPT !.pc = "runs", !.fetchedRuns = fetch.result,
                                       !.j = 1]
            /\ history' = FetchSeen(history, repositories[runsTask.i], fetch)
  /\ UNCHANGED <<workflowRunStatusGauge, workflowRunDurationGauge>>
  /\ UNCHANGED notRuns

\* One iteration of the loop over the repositories, up to the loop over
\* the runs: a name that is not owner/name is skipped, else the runs are
\* fetched; the loop over the runs is given what the fetch returned,
\* whether it ended on an error or not.
RunsRepo ==
  /\ task = "runs"
  /\ runsTask.pc = "repos"
  /\ runsTask.i <= Len(runsTask.repos)
  /\ IF Len(ownerAndRepo(runsTask.repos[runsTask.i])) # 2
     THEN /\ runsTask' = [runsTask EXCEPT !.i = @ + 1]
          /\ UNCHANGED history
     ELSE \E fetch \in FetchOutcomes("runs") :
            /\ runsTask' =
                 IF fetch.result = <<>>
                 THEN [runsTask EXCEPT !.i = @ + 1]
                 ELSE [runsTask EXCEPT !.pc = "runs", !.fetchedRuns = fetch.result,
                                       !.j = 1]
            /\ history' = FetchSeen(history, runsTask.repos[runsTask.i], fetch)
  /\ UNCHANGED <<workflowRunStatusGauge, workflowRunDurationGauge>>
  /\ UNCHANGED notRuns

-----------------------------------------------------------------------------
(* The two runner collectors, getRunnersFromGithub and                     *)
(* getRunnersOrganizationFromGithub.  Their pc is "idle" at the ticker and *)
(* "repos" (or "orgs") in the loop; i is the index in the loop.  The       *)
(* client and the gauges are never nil when the goroutines start.          *)

\* strconv.FormatBool
FormatBool(b) == IF b THEN "true" ELSE "false"

\* The runner passes the check for incomplete data.
Complete(runner) ==
  /\ runner # Nil
  /\ runner[1].ID # Nil
  /\ runner[1].Name # Nil
  /\ runner[1].OS # Nil
  /\ runner[1].Status # Nil
  /\ runner[1].Busy # Nil

\* The label values of a runner; scope is the repository or the organization.
runnerLabels(scope, runner) ==
  <<scope, runner[1].OS[1], runner[1].Name[1], FormatInt(runner[1].ID[1]),
    FormatBool(runner[1].Busy[1])>>

\* A value that is 0 for the status "offline" alone.
statusValueUnlessOffline(runner) == IF runner[1].Status[1] = "offline" THEN 0 ELSE 1

statusValue(runner) == IF runner[1].Status[1] = "online" THEN 1 ELSE 0

RECURSIVE setRunnersUntilIncomplete(_, _, _)
\* A loop that ends at the first incomplete runner.
setRunnersUntilIncomplete(gauge, scope, fetchedRunners) ==
  IF fetchedRunners = <<>> \/ ~Complete(Head(fetchedRunners))
  THEN gauge
  ELSE setRunnersUntilIncomplete(
         WithLabelValuesSet(gauge, runnerLabels(scope, Head(fetchedRunners)),
                            statusValue(Head(fetchedRunners))),
         scope, Tail(fetchedRunners))

RECURSIVE setRunners(_, _, _)
\* The loop over the fetched runners: each complete runner sets its series.
setRunners(gauge, scope, fetchedRunners) ==
  IF fetchedRunners = <<>>
  THEN gauge
  ELSE LET runner == Head(fetchedRunners)
       IN setRunners(IF Complete(runner)
                     THEN WithLabelValuesSet(gauge, runnerLabels(scope, runner),
                                             statusValue(runner))
                     ELSE gauge,
                     scope, Tail(fetchedRunners))

\* The series the loop over the fetched runners sets.
runnerSeries(scope, fetchedRunners) ==
  { runnerLabels(scope, r) : r \in { x \in Range(fetchedRunners) : Complete(x) } }

\* The observation of one fetch of runners.
ObservedRunners(scope, fetchedRunners) ==
  [scope |-> scope, fetched |-> fetchedRunners]

notRunners == <<config, repositories, workflows, workflowRunStatusGauge,
                workflowRunDurationGauge, runnersOrganizationGauge, workflowBillGauge,
                fetcher, runsTask, orgRunnersTask, billTask, pager, task>>

\* A tick: nothing is done while the repository list is empty; else the
\* gauge is reset and the loop over the repositories begins.
RunnersTick ==
  /\ task = "runners"
  /\ runnersTask.pc = "idle"
  /\ IF Len(repositories) = 0
     THEN /\ UNCHANGED <<runnersGauge, runnersTask>>
          /\ history' = CycleSeen(TickSeen(history, runnersGauge, runnersGauge), <<runnersGauge>>)
     ELSE /\ runnersGauge' = Reset(runnersGauge)
          /\ \E load \in rangeRepositories :
               runnersTask' = [pc |-> "repos", repos |-> load.list,
                               stray |-> load.stray, i |-> 1]
          /\ history' = TickSeen(history, runnersGauge, runnersGauge')
  /\ UNCHANGED notRunners

\* One iteration of the loop over the repositories.
RunnersRepo ==
  /\ task = "runners"
  /\ runnersTask.pc = "repos"
  /\ runnersTask.i <= Len(runnersTask.repos)
  /\ LET repoFullName == runnersTask.repos[runnersTask.i]
     IN IF Len(ownerAndRepo(repoFullName)) # 2
        THEN UNCHANGED <<runnersGauge, history>>
        ELSE \E fetch \in FetchOutcomes("repoRunners") :
               LET fetchedRunners == fetch.result IN
               /\ runnersGauge' = setRunners(runnersGauge, repoFullName, fetchedRunners)
               /\ history' = FetchSeen(SetSeen(history,
                      <<ObservedRunners(repoFullName, fetchedRunners)>>,
                      runnerSeries(repoFullName, fetchedRunners), runnersGauge'),
                    repoFullName, fetch)
  /\ runnersTask' = [runnersTask EXCEPT !.i = @ + 1]
  /\ UNCHANGED notRunners

\* The end of the loop: back to the ticker.
RunnersFinish ==
  /\ task = "runners"
  /\ runnersTask.pc = "repos"
  /\ runnersTask.i > Len(runnersTask.repos)
  /\ IF runnersTask.stray
     THEN /\ runnersTask' = [runnersTask EXCEPT !.pc = "fault"]
          /\ UNCHANGED history
     ELSE /\ runnersTask' = [runnersTask EXCEPT !.pc = "idle"]
          /\ history' = CycleSeen(history, <<runnersGauge>>)
  /\ UNCHANGED runnersGauge
  /\ UNCHANGED notRunners

notOrgRunners == <<config, repositories, workflows, workflowRunStatusGauge,
                   workflowRunDurationGauge, runnersGauge, workflowBillGauge,
                   fetcher, runsTask, runnersTask, billTask, pager, task>>

\* The check before the ticker: the collector ends when no organization is
\* configured.
OrgRunnersStart ==
  /\ task = "orgRunners"
  /\ orgRunnersTask.pc = "start"
  /\ orgRunnersTask' = [orgRunnersTask EXCEPT
       !.pc = IF Len(config.Organizations) = 0 THEN "stopped" ELSE "idle"]
  /\ UNCHANGED <<runnersOrganizationGauge, history>>
  /\ UNCHANGED notOrgRunners

\* A tick: nothing is done without organizations; else the gauge is reset
\* and the loop over the organizations begins.
OrgRunnersTick ==
  /\ task = "orgRunners"
  /\ orgRunnersTask.pc = "idle"
  /\ IF Len(config.Organizations) = 0
     THEN /\ UNCHANGED <<runnersOrganizationGauge, orgRunnersTask>>
          /\ history' = CycleSeen(TickSeen(history, runnersOrganizationGauge,
                                           runnersOrganizationGauge),
                                  <<runnersOrganizationGauge>>)
     ELSE /\ runnersOrganizationGauge' = Reset(runnersOrganizationGauge)
          /\ orgRunnersTask' = [pc |-> "orgs", i |-> 1]
          /\ history' = TickSeen(history, runnersOrganizationGauge, runnersOrganizationGauge')
  /\ UNCHANGED notOrgRunners

\* One iteration of the loop over the organizations.
OrgRunnersOrga ==
  /\ task = "orgRunners"
  /\ orgRunnersTask.pc = "orgs"
  /\ orgRunnersTask.i <= Len(config.Organizations)
  /\ LET orgaName == config.Organizations[orgRunnersTask.i]
     IN IF orgaName = ""
        THEN UNCHANGED <<runnersOrganizationGauge, history>>
        ELSE \E fetch \in FetchOutcomes("orgRunners") :
               LET fetchedRunners == fetch.result IN
               /\ runnersOrganizationGauge' =
                    setRunners(runnersOrganizationGauge, orgaName, fetchedRunners)
               /\ history' = FetchSeen(SetSeen(history,
                      <<ObservedRunners(orgaName, fetchedRunners)>>,
                      runnerSeries(orgaName, fetchedRunners), runnersOrganizationGauge'),
                    orgaName, fetch)
  /\ orgRunnersTask' = [orgRunnersTask EXCEPT !.i = @ + 1]
  /\ UNCHANGED notOrgRunners

\* The end of the loop: back to the ticker.
OrgRunnersFinish ==
  /\ task = "orgRunners"
  /\ orgRunnersTask.pc = "orgs"
  /\ orgRunnersTask.i > Len(config.Organizations)
  /\ orgRunnersTask' = [orgRunnersTask EXCEPT !.pc = "idle"]
  /\ history' = CycleSeen(history, <<runnersOrganizationGauge>>)
  /\ UNCHANGED runnersOrganizationGauge
  /\ UNCHANGED notOrgRunners

-----------------------------------------------------------------------------
(* The billing collector, getBillableFromGithub.  billTask.pc is "idle" at *)
(* the ticker and "workflows" in the loop over the cache; cache is the map *)
(* the range statement was given, left the repositories of it not yet      *)
(* visited (a Go map is visited in no particular order).                   *)

\* What one call of client.Actions.GetWorkflowUsageByID may answer: an
\* error, or a usage that may be nil, without billable map, or with one.
\* The operating systems of a billable map stay distinct in upper case.
UsageAnswers ==
  { [err |-> "ratelimit", usage |-> Nil],
    [err |-> "other", usage |-> Nil],
    [err |-> "none", usage |-> Nil],
    [err |-> "none", usage |-> Ptr([Billable |-> Nil])],
    [err |-> "none", usage |-> Ptr([Billable |-> Ptr(
        [os \in {"UBUNTU", "macos", "WINDOWS"} |->
           CASE os = "UBUNTU" -> Ptr([TotalMS |-> Ptr(61500)])
             [] os = "macos" -> Ptr([TotalMS |-> Ptr(0)])
             [] os = "WINDOWS" -> Ptr([TotalMS |-> Nil])])])],
    [err |-> "none", usage |-> Ptr([Billable |-> Ptr(
        [os \in {"UBUNTU", "MACOS"} |->
           IF os = "UBUNTU" THEN Ptr([TotalMS |-> Ptr(2000)]) ELSE Nil])])] }

\* The attempts of the retry loop.
MaxAttempts == 3

RECURSIVE attemptUsage(_, _, _)
\* The retry loop `for i := 0; i < 3; i++`: answers[i + 1] is the answer to
\* the call of iteration i; the loop leaves at the first success and keeps
\* the answer of its last call.
attemptUsage(answers, i, lastAnswer) ==
  IF i >= MaxAttempts
  THEN lastAnswer
  ELSE IF answers[i + 1].err = "none"
       THEN answers[i + 1]
       ELSE attemptUsage(answers, i + 1, answers[i + 1])

\* The answers the retry loop may end with.
UsageResults ==
  { attemptUsage(answers, 0, Nil) : answers \in [1..MaxAttempts -> UsageAnswers] }

\* strings.ToUpper on the names of operating systems.
ToUpper(osType) ==
  CASE osType = "ubuntu" -> "UBUNTU"
    [] osType = "macos" -> "MACOS"
    [] osType = "windows" -> "WINDOWS"
    [] OTHER -> osType

\* float64(totalMs) / 1000: the seconds, as whole seconds and thousandths.
Seconds(totalMs) == [whole |-> totalMs \div 1000, thousandths |-> totalMs % 1000]

\* The definition passes the check for incomplete data.
CompleteDefinition(w) ==
  /\ w # Nil
  /\ w[1].ID # Nil
  /\ w[1].Name # Nil
  /\ w[1].NodeID # Nil
  /\ w[1].State # Nil

\* The label values of a definition for one operating system.
billLabels(repoFullName, w, osType) ==
  <<repoFullName, FormatInt(w[1].ID[1]), w[1].NodeID[1], w[1].Name[1], w[1].State[1],
    ToUpper(osType)>>

\* Operating systems for which a series is set only when time was billed.
billedSystemsWithTime(w, result) ==
  IF \/ ~CompleteDefinition(w)
     \/ result.err # "none"
     \/ result.usage = Nil
     \/ result.usage[1].Billable = Nil
  THEN {}
  ELSE { os \in DOMAIN result.usage[1].Billable[1] :
           /\ result.usage[1].Billable[1][os] # Nil
           /\ result.usage[1].Billable[1][os][1].TotalMS # Nil
           /\ result.usage[1].Billable[1][os][1].TotalMS[1] > 0 }

\* The operating systems of the result for which a series is set.
billedSystems(w, result) ==
  IF \/ ~CompleteDefinition(w)
     \/ result.err # "none"
     \/ result.usage = Nil
     \/ result.usage[1].Billable = Nil
  THEN {}
  ELSE { os \in DOMAIN result.usage[1].Billable[1] :
           /\ result.usage[1].Billable[1][os] # Nil
           /\ result.usage[1].Billable[1][os][1].TotalMS # Nil }

\* The definitions of a repository the usage endpoint is called for.
calledFor(repoWorkflowsMap) ==
  { id \in DOMAIN repoWorkflowsMap : CompleteDefinition(repoWorkflowsMap[id]) }

\* The series set for the definitions of one repository; results[id] is what
\* the retry loop ended with for definition id.
billSeries(repoFullName, repoWorkflowsMap, results) ==
  UNION { { billLabels(repoFullName, repoWorkflowsMap[id], os) :
              os \in billedSystems(repoWorkflowsMap[id], results[id]) } :
          id \in calledFor(repoWorkflowsMap) }

\* The loop over the definitions of one repository.  No two of its series
\* have the same label values, so the order of the visits does not show.
setBillable(gauge, repoFullName, repoWorkflowsMap, results) ==
  LET valueOf(lv) ==
        LET id == CHOOSE d \in calledFor(repoWorkflowsMap) :
                    \E os \in billedSystems(repoWorkflowsMap[d], results[d]) :
                      billLabels(repoFullName, repoWorkflowsMap[d], os) = lv
            os == CHOOSE o \in billedSystems(repoWorkflowsMap[id], results[id]) :
                    billLabels(repoFullName, repoWorkflowsMap[id], o) = lv
        IN Seconds(getSafeInt64(results[id].usage[1].Billable[1][os][1].TotalMS))
      set == billSeries(repoFullName, repoWorkflowsMap, results)
  IN [lv \in DOMAIN gauge \cup set |-> IF lv \in set THEN valueOf(lv) ELSE gauge[lv]]

notBill == <<config, repositories, workflows, workflowRunStatusGauge,
             workflowRunDurationGauge, runnersGauge, runnersOrganizationGauge,
             fetcher, runsTask, runnersTask, orgRunnersTask, pager, task>>

\* A tick: nothing is done while the cache or the repository list is empty;
\* else the gauge is reset and the loop over the cache begins.
BillTick ==
  /\ task = "bill"
  /\ billTask.pc = "idle"
  /\ IF Cardinality(DOMAIN workflows) = 0 \/ Len(repositories) = 0
     THEN /\ UNCHANGED <<workflowBillGauge, billTask>>
          /\ history' = CycleSeen(TickSeen(history, workflowBillGauge, workflowBillGauge),
                                  <<workflowBillGauge>>)
     ELSE /\ workflowBillGauge' = Reset(workflowBillGauge)
          /\ billTask' = [pc |-> "workflows", cache |-> workflows,
                          left |-> DOMAIN workflows]
          /\ history' = TickSeen(history, workflowBillGauge, workflowBillGauge')
  /\ UNCHANGED notBill

\* One iteration of the loop over the repositories of the cache, the loop
\* over its definitions and their retry loops included.
BillRepo ==
  /\ task = "bill"
  /\ billTask.pc = "workflows"
  /\ \E repoFullName \in billTask.left :
       LET repoWorkflowsMap == billTask.cache[repoFullName]
       IN /\ IF Len(ownerAndRepo(repoFullName)) # 2
             THEN UNCHANGED <<workflowBillGauge, history>>
             ELSE \E results \in [calledFor(repoWorkflowsMap) -> UsageResults] :
                    /\ workflowBillGauge' =
                         setBillable(workflowBillGauge, repoFullName,
                                     repoWorkflowsMap, results)
                    /\ history' = SetSeen(history,
                         <<[repo |-> repoFullName, definitions |-> repoWorkflowsMap,
                            results |-> results]>>,
                         billSeries(repoFullName, repoWorkflowsMap, results),
                         workflowBillGauge')
          /\ billTask' = [billTask EXCEPT !.left = @ \ {repoFullName}]
  /\ UNCHANGED notBill

\* The end of the loop: back to the ticker.
BillFinish ==
  /\ task = "bill"
  /\ billTask.pc = "workflows"
  /\ billTask.left = {}
  /\ billTask' = [billTask EXCEPT !.pc = "idle"]
  /\ history' = CycleSeen(history, <<workflowBillGauge>>)
  /\ UNCHANGED workflowBillGauge
  /\ UNCHANGED notBill

-----------------------------------------------------------------------------
(* Spec: the refresher and one collector.  The collectors share nothing    *)
(* but the two globals the refresher writes, and each owns its gauges, so  *)
(* a behaviour of one collector beside the refresher is the same whether   *)
(* the other collectors run or not; task names the collector that runs.    *)

Tasks == {"runs", "runners", "orgRunners", "bill"}

\* The options: nothing configured; an explicit list (with a duplicate and
\* a name that is not owner/name) beside an organization; organizations only.
SourceInputs ==
  { [Repositories |-> <<>>, Organizations |-> <<>>],
    [Repositories |-> <<"o/a", "x/y/z", "o/a">>, Organizations |-> <<"o">>],
    [Repositories |-> <<>>, Organizations |-> <<"", "o">>] }

\* Two organizations beside an explicit list, for the collector that goes
\* through the organizations.
TwoOrganizations == [Repositories |-> <<"o/a">>, Organizations |-> <<"o", "p">>]

\* The field lists of Spec: one that tells the runs of a repository apart
\* and one that does not.
SpecFieldInputs == { <<"repo", "run_id", "workflow_name">>, <<"repo", "status">> }

\* The collectors before their first step.
IdleRuns ==
  [pc |-> "idle", repos |-> <<>>, stray |-> FALSE, i |-> 1, fetchedRuns |-> <<>>,
   j |-> 1]

IdleRunners == [pc |-> "idle", repos |-> <<>>, stray |-> FALSE, i |-> 1]

IdleOrgRunners == [pc |-> "idle", i |-> 1]

IdleBill == [pc |-> "idle", cache |-> <<>>, left |-> {}]

\* The inputs of a behaviour: the field list and the usage toggle vary for
\* the run collector only, and beside an explicit repository list only (the
\* list resolved from an organization has two repositories, the explicit
\* one has one).
InputsOf(t, source, fields, usage) ==
  /\ t # "runs" => fields = <<"repo", "status">> /\ usage
  /\ (t = "runs" /\ Len(source.Repositories) = 0) => fields = <<"repo", "status">> /\ ~usage
  /\ source = TwoOrganizations => t = "orgRunners"

Init ==
  \E t \in Tasks, source \in SourceInputs \cup {TwoOrganizations},
     fields \in SpecFieldInputs,
     usage \in BOOLEAN :
    /\ InputsOf(t, source, fields, usage)
    /\ task = t
    /\ config = Config(source.Repositories, source.Organizations, fields, usage)
    /\ repositories = <<>>
    /\ workflows = <<>>
    /\ workflowRunStatusGauge = EmptyGauge
    /\ workflowRunDurationGauge = EmptyGauge
    /\ runnersGauge = EmptyGauge
    /\ runnersOrganizationGauge = EmptyGauge
    /\ workflowBillGauge = EmptyGauge
    /\ fetcher = StartingFetcher
    /\ runsTask = [IdleRuns EXCEPT !.pc = "start"]
    /\ runnersTask = IdleRunners
    /\ orgRunnersTask = [IdleOrgRunners EXCEPT !.pc = "start"]
    /\ billTask = IdleBill
    /\ pager = Unused
    /\ history = NoHistory

Next ==
  \/ FetcherResolve \/ FetcherBuild \/ FetcherSettle \/ FetcherTick
  \/ RunsStart \/ RunsTick \/ RunsRepo \/ RunsRun \/ RunsFinish
  \/ RunnersTick \/ RunnersRepo \/ RunnersFinish
  \/ OrgRunnersStart \/ OrgRunnersTick \/ OrgRunnersOrga \/ OrgRunnersFinish
  \/ BillTick \/ BillRepo \/ BillFinish

Spec == Init /\ [][Next]_vars

-----------------------------------------------------------------------------
(* SpecRepeat: the cycles of one collector while the refresher waits for   *)
(* its next tick: the repository list and the cache are what a refresh     *)
(* left and stay as they are, and the observer keeps the last two cycles.  *)

InitRepeat ==
  \E t \in Tasks, source \in SourceInputs \cup {TwoOrganizations},
     fields \in SpecFieldInputs,
     usage \in BOOLEAN :
    \E repos \in Resolved(source) :
      \E cache \in Built(repos) :
        /\ InputsOf(t, source, fields, usage)
        /\ task = t
        /\ config = Config(source.Repositories, source.Organizations, fields, usage)
        /\ repositories = repos
        /\ workflows = cache
        /\ workflowRunStatusGauge = EmptyGauge
        /\ workflowRunDurationGauge = EmptyGauge
        /\ runnersGauge = EmptyGauge
        /\ runnersOrganizationGauge = EmptyGauge
        /\ workflowBillGauge = EmptyGauge
        /\ fetcher = [pc |-> "wait"]
        /\ runsTask = [IdleRuns EXCEPT !.pc = IF Len(repos) = 0 THEN "stopped" ELSE "idle"]
        /\ runnersTask = IdleRunners
        /\ orgRunnersTask = [IdleOrgRunners EXCEPT
             !.pc = IF Len(source.Organizations) = 0 THEN "stopped" ELSE "idle"]
        /\ billTask = IdleBill
        /\ pager = Unused
        /\ history = [NoHistory EXCEPT !.keep = TRUE]

NextRepeat ==
  \/ RunsTick \/ RunsRepo \/ RunsRun \/ RunsFinish
  \/ RunnersTick \/ RunnersRepo \/ RunnersFinish
  \/ OrgRunnersTick \/ OrgRunnersOrga \/ OrgRunnersFinish
  \/ BillTick \/ BillRepo \/ BillFinish

SpecRepeat == InitRepeat /\ [][NextRepeat]_vars

-----------------------------------------------------------------------------
(* SpecRefresh: the refresher alone, over more options than Spec.  No      *)
(* collector writes repositories or workflows, so what the refresher does  *)
(* with them is the same beside any collector.                             *)

\* The options: those of Spec; an organization configured twice around a
\* nameless one; two organizations; a nameless organization alone; an
\* explicit list with a repeated name beside two organizations.
RefreshInputs ==
  SourceInputs \cup
  { [Repositories |-> <<>>, Organizations |-> <<"o", "", "o">>],
    [Repositories |-> <<>>, Organizations |-> <<"o", "p">>],
    [Repositories |-> <<>>, Organizations |-> <<"">>],
    [Repositories |-> <<"o/b", "o/a", "o/b">>, Organizations |-> <<"o", "p">>] }

InitRefresh ==
  \E source \in RefreshInputs :
    /\ task = "refresh"
    /\ config = Config(source.Repositories, source.Organizations, <<"repo", "status">>, FALSE)
    /\ repositories = <<>>
    /\ workflows = <<>>
    /\ workflowRunStatusGauge = EmptyGauge
    /\ workflowRunDurationGauge = EmptyGauge
    /\ runnersGauge = EmptyGauge
    /\ runnersOrganizationGauge = EmptyGauge
    /\ workflowBillGauge = EmptyGauge
    /\ fetcher = StartingFetcher
    /\ runsTask = Unused
    /\ runnersTask = Unused
    /\ orgRunnersTask = Unused
    /\ billTask = Unused
    /\ pager = Unused
    /\ history = NoHistory

NextRefresh == FetcherResolve \/ FetcherBuild \/ FetcherSettle \/ FetcherTick

SpecRefresh == InitRefresh /\ [][NextRefresh]_vars

-----------------------------------------------------------------------------
(* The gauges between and within the cycles *)

\* The gauge the collector under observation publishes to.
ObservedGauge ==
  CASE task = "runs" -> workflowRunStatusGauge
    [] task = "runners" -> runnersGauge
    [] task = "orgRunners" -> runnersOrganizationGauge
    [] task = "bill" -> workflowBillGauge

\* The collector under observation waits for its next tick.
AtRest ==
  CASE task = "runs" -> runsTask.pc = "idle"
    [] task = "runners" -> runnersTask.pc = "idle"
    [] task = "orgRunners" -> orgRunnersTask.pc = "idle"
    [] task = "bill" -> billTask.pc = "idle"

\* The fetched runs of the log that have an id.
WithId == SelectSeq(history.log, LAMBDA e : e.run # Nil /\ e.run[1].ID # Nil)

\* C6: while the run collector waits for its next tick, the series of the
\* run-status gauge are exactly the label vectors derived from the runs
\* fetched in the most recent cycle that have an id: one value per
\* configured field, each field but the workflow name derived from the run
\* alone; the value of a series is the status code of the last fetched run
\* with that label vector; no other series is in the gauge.
C6_StatusGaugeAtRestIsLastCycle ==
  (task = "runs" /\ runsTask.pc = "idle") =>
    /\ \A k \in 1..Len(history.log) :
         LET e == history.log[k] IN
         /\ e.series # Nil <=> (e.run # Nil /\ e.run[1].ID # Nil)
         /\ e.series # Nil =>
              /\ Len(e.series[1][1]) = Len(config.WorkflowFields)
              /\ \A i \in 1..Len(config.WorkflowFields) :
                   config.WorkflowFields[i] # "workflow_name" =>
                     e.series[1][1][i] =
                       labelValues(e.repo, e.run[1], <<config.WorkflowFields[i]>>)[1]
              /\ e.series[1][2] = TableCode(AbsentAsEmpty(e.run[1].Status),
                                            AbsentAsEmpty(e.run[1].Conclusion))
    /\ DOMAIN workflowRunStatusGauge = { WithId[k].series[1][1] : k \in 1..Len(WithId) }
    /\ \A k \in 1..Len(WithId) :
         (\A m \in (k + 1)..Len(WithId) : WithId[m].series[1][1] # WithId[k].series[1][1])
           => workflowRunStatusGauge[WithId[k].series[1][1]] = WithId[k].series[1][2]

\* The collector is at rest after a cycle whose tick removed the series of
\* the cycle before, and the gauge holds the series of two fetched runs.
C6_Witness ==
  /\ task = "runs"
  /\ runsTask.pc = "idle"
  /\ history.cleared
  /\ Len(WithId) >= 2
  /\ Cardinality(DOMAIN workflowRunStatusGauge) = 2

\* C7: while a collector waits for its next tick, every series of its gauge
\* was set in the cycle of its last tick: a label combination that was not
\* fetched again is gone.
C7_NoSeriesOfEarlierCycleAtRest ==
  AtRest => \A lv \in DOMAIN history.stamps : history.stamps[lv] = "cur"

\* C8: in every state, the series of the gauge of a collector were all set
\* in the same cycle: all since the collector's last tick, or all before it.
C8_SeriesOfOneCycle ==
  /\ DOMAIN history.stamps = DOMAIN ObservedGauge
  /\ \A lv1 \in DOMAIN history.stamps, lv2 \in DOMAIN history.stamps :
       history.stamps[lv1] = history.stamps[lv2]

\* In the middle of a cycle that began by removing series, the gauge holds
\* a series of this cycle.
C8_Witness ==
  /\ ~AtRest
  /\ history.cleared
  /\ \E lv \in DOMAIN ObservedGauge : history.stamps[lv] = "cur"

\* C9: when two consecutive cycles of a collector fetched and published the
\* same (same log: same repositories in the same order, same fetch results,
\* same derived series), the gauges after the second are the gauges after
\* the first.
C9_SameFetchSameGauges ==
  (history.prev # Nil /\ history.last # Nil) =>
    (history.prev[1].log = history.last[1].log
       => history.prev[1].gauges = history.last[1].gauges)

\* Two consecutive cycles fetched the same and left the same series.
C9_Witness ==
  /\ history.prev # Nil
  /\ history.last # Nil
  /\ history.prev[1].log = history.last[1].log
  /\ history.last[1].log # <<>>
  /\ DOMAIN history.last[1].gauges[1] # {}
  /\ history.prev[1].gauges = history.last[1].gauges

-----------------------------------------------------------------------------
(* The run loop body: cache lookup and duration *)

\* The cache has no name for the workflow of the given run: the repository
\* is not a key, the id is not a key of the repository's map, or the
\* definition found has no name.
CacheMiss ==
  LET id == IF GivenRun[1].WorkflowID = Nil THEN 0 ELSE GivenRun[1].WorkflowID[1] IN
  \/ "o/a" \notin DOMAIN workflows
  \/ id \notin DOMAIN workflows["o/a"]
  \/ workflows["o/a"][id] = Nil
  \/ workflows["o/a"][id][1].Name = Nil

\* C11: a run whose workflow has no name in the cache is still published:
\* exactly one series, whose label vector has one value per configured field
\* and "unknown_workflow_name" at every position of the workflow_name field.
C11_CacheMissPublishesSentinel ==
  (Published /\ CacheMiss) =>
    /\ Cardinality(DOMAIN workflowRunStatusGauge) = 1
    /\ \A lv \in DOMAIN workflowRunStatusGauge :
         /\ Len(lv) = Len(config.WorkflowFields)
         /\ \A i \in 1..Len(config.WorkflowFields) :
              config.WorkflowFields[i] = "workflow_name"
                => lv[i] = "unknown_workflow_name"

\* A run of workflow 7 was published while the cache holds workflow 7 of the
\* repository without a name: the vector carries the sentinel.
C11_Witness ==
  /\ Published
  /\ GivenRun[1].WorkflowID = Ptr(7)
  /\ "o/a" \in DOMAIN workflows
  /\ 7 \in DOMAIN workflows["o/a"]
  /\ workflows["o/a"][7] # Nil
  /\ workflows["o/a"][7][1].Name = Nil
  /\ \E lv \in DOMAIN workflowRunStatusGauge, i \in 1..Len(config.WorkflowFields) :
       config.WorkflowFields[i] = "workflow_name" /\ lv[i] = "unknown_workflow_name"

\* The answer the usage endpoint gave for the given run.
UsageAnswer == history.log[1].usage[1]

\* The answer carries a duration: no error, a usage, a duration in it.
AnswersDuration(u) ==
  u.err = "none" /\ u.usage # Nil /\ u.usage[1].RunDurationMS # Nil

\* A timestamp that is there: not null and not the zero time.
Present(t) == t # Nil /\ ~t[1].zero

\* The duration the specification gives when the endpoint gave none: the
\* whole milliseconds from RunStartedAt to UpdatedAt for a completed or
\* stale run with both timestamps and UpdatedAt strictly later, else -1.
FallbackDuration(run) ==
  IF /\ run.Status \in {Ptr("completed"), Ptr("stale")}
     /\ Present(run.RunStartedAt) /\ Present(run.UpdatedAt)
     /\ run.UpdatedAt[1].us > run.RunStartedAt[1].us
  THEN (run.UpdatedAt[1].us - run.RunStartedAt[1].us) \div 1000
  ELSE -1

\* C12: with duration collection on, the duration published for a run is
\* the duration the usage endpoint returned when it returned one; when the
\* call failed or returned none it is the milliseconds from RunStartedAt to
\* UpdatedAt for a completed or stale run with both timestamps and UpdatedAt
\* strictly later, and -1 for every other run.
C12_DurationFromUsageElseFallback ==
  (Published /\ config.FetchWorkflowRunUsage) =>
    /\ Cardinality(DOMAIN workflowRunDurationGauge) = 1
    /\ \A lv \in DOMAIN workflowRunDurationGauge :
         workflowRunDurationGauge[lv] =
           IF AnswersDuration(UsageAnswer)
           THEN UsageAnswer.usage[1].RunDurationMS[1]
           ELSE FallbackDuration(GivenRun[1])

\* The usage call failed for a completed run started at 102.5 s and updated
\* at 107.5 s: the duration published is 5000.
C12_Witness ==
  /\ Published
  /\ config.FetchWorkflowRunUsage
  /\ UsageAnswer.err = "other"
  /\ GivenRun[1].Status = Ptr("completed")
  /\ GivenRun[1].RunStartedAt = Ptr(TimeAt(102500000))
  /\ GivenRun[1].UpdatedAt = Ptr(TimeAt(107500000))
  /\ \E lv \in DOMAIN workflowRunDurationGauge : workflowRunDurationGauge[lv] = 5000

-----------------------------------------------------------------------------
(* The duration gauge beside the status gauge *)

\* C13: with duration collection on, while the run collector waits for its
\* next tick the duration gauge has exactly the label vectors of the status
\* gauge, whatever the usage endpoint answered for each run; with duration
\* collection off, the duration gauge never has a series and no fetched run
\* has a usage answer (the endpoint is not called).
C13_DurationSeriesBesideStatusSeries ==
  task = "runs" =>
    /\ (config.FetchWorkflowRunUsage /\ runsTask.pc = "idle")
         => DOMAIN workflowRunDurationGauge = DOMAIN workflowRunStatusGauge
    /\ ~config.FetchWorkflowRunUsage =>
         /\ DOMAIN workflowRunDurationGauge = {}
         /\ \A k \in 1..Len(history.log) : history.log[k].usage = Nil

\* At rest after a cycle in which the usage call failed with a rate limit
\* for a published run: both gauges hold the series of that run.
C13_Witness ==
  /\ task = "runs"
  /\ runsTask.pc = "idle"
  /\ config.FetchWorkflowRunUsage
  /\ \E k \in 1..Len(history.log) :
       /\ history.log[k].usage # Nil
       /\ history.log[k].usage[1].err = "ratelimit"
       /\ history.log[k].series # Nil
       /\ history.log[k].series[1][1] \in DOMAIN workflowRunDurationGauge
  /\ DOMAIN workflowRunDurationGauge = DOMAIN workflowRunStatusGauge

-----------------------------------------------------------------------------
(* The refresher: the repository list and the cache *)

\* The first position of name in list.
FirstIndex(name, list) == CHOOSE i \in 1..Len(list) :
  list[i] = name /\ \A j \in 1..(i - 1) : list[j] # name

\* unique holds each name of list once, in the order of the first
\* occurrences in list.
FirstOccurrences(unique, list) ==
  /\ \A i \in 1..Len(unique), j \in 1..Len(unique) : unique[i] = unique[j] => i = j
  /\ Range(unique) = Range(list)
  /\ \A i \in 1..Len(unique), j \in 1..Len(unique) :
       i < j => FirstIndex(unique[i], list) < FirstIndex(unique[j], list)

\* A refresh has assigned the repository list.
Refreshed == fetcher.pc \in {"build", "publish", "wait"}

\* C14: with an explicit repository list and an organization list both
\* configured, a refresh leaves the repository list equal to the explicit
\* list without its repeated names, and getAllReposForOrg is called for no
\* organization.
C14_ExplicitListTakesPrecedence ==
  (Len(config.Repositories) > 0 /\ Len(config.Organizations) > 0) =>
    /\ fetcher.listed = <<>>
    /\ Refreshed => FirstOccurrences(repositories, config.Repositories)

\* After a refresh under the explicit list o/b, o/a, o/b beside two
\* organizations, the list is o/b, o/a.
C14_Witness ==
  /\ fetcher.pc = "wait"
  /\ config.Repositories = <<"o/b", "o/a", "o/b">>
  /\ config.Organizations = <<"o", "p">>
  /\ repositories = <<"o/b", "o/a">>

\* C15: the repository list a refresh leaves holds no name twice, holds
\* every name the resolution produced (the explicit list, or the lists found
\* for the organizations, concatenated in configured order), and keeps the
\* names in the order of their first occurrence.
C15_ListIsFirstOccurrencesOfResolution ==
  /\ FirstOccurrences(repositories, fetcher.produced)
  /\ Refreshed =>
       \E found \in Listings(config) :
         fetcher.produced =
           IF Len(config.Repositories) > 0 THEN config.Repositories
           ELSE reposOfOrgs(config.Organizations, found)

\* An organization configured twice listed o/a, then o/b and o/a: the list
\* is o/a, o/b.
C15_Witness ==
  /\ fetcher.pc = "wait"
  /\ config.Organizations = <<"o", "", "o">>
  /\ fetcher.produced = <<"o/a", "o/b", "o/a">>
  /\ repositories = <<"o/a", "o/b">>

\* C16: the step that assigns the cache leaves a reader with a complete
\* snapshot: the map that was there before it or the map the refresh built.
C16_LoadSeesCompleteSnapshot ==
  [][fetcher.pc = "build" => workflows' \in {workflows, fetcher'.built}]_vars

\* C17: when a refresh has resolved the repository list to empty, the cache
\* is empty once the refresh is complete and the refresher waits.
C17_EmptyListEmptyCache ==
  (fetcher.pc = "wait" /\ repositories = <<>>) => workflows = <<>>

\* The refresher waits after a refresh in which getAllReposForOrg was called
\* and no repository was found: the list and the cache are empty.
C17_Witness ==
  /\ fetcher.pc = "wait"
  /\ Len(config.Organizations) > 0
  /\ fetcher.listed # <<>>
  /\ fetcher.produced = <<>>
  /\ repositories = <<>>
  /\ workflows = <<>>

-----------------------------------------------------------------------------
(* The life of the run collector *)

\* C18: the run collector never ends: whenever there are repositories to
\* collect, it waits for a tick or is in a cycle.
C18_RunCollectorNeverEnds ==
  ~(task = "runs" /\ runsTask.pc = "stopped" /\ Len(repositories) > 0)

-----------------------------------------------------------------------------
(* Fetch errors within a cycle *)

\* The list the cycle of the collector under observation goes through.
CycleList ==
  CASE task = "runs" -> runsTask.repos
    [] task = "runners" -> runnersTask.repos
    [] task = "orgRunners" -> config.Organizations
    [] OTHER -> <<>>

\* The entries of the list a fetch is made for: owner/name, or an
\* organization with a name.
Fetchable(scope) ==
  IF task = "orgRunners" THEN scope # "" ELSE Len(ownerAndRepo(scope)) = 2

\* The series derived from what the cycle fetched, by the log.
DerivedSeries ==
  IF task = "runs"
  THEN { history.log[k].series[1][1] :
           k \in { n \in 1..Len(history.log) : history.log[n].series # Nil } }
  ELSE UNION { runnerSeries(history.log[k].scope, history.log[k].fetched) :
                 k \in 1..Len(history.log) }

\* The repositories or organizations a fetch was made for, in order.
FetchedScopes == [k \in 1..Len(history.fetched) |-> history.fetched[k].scope]

\* Those whose fetch ended on an error.
FailedScopes ==
  { history.fetched[k].scope :
      k \in { n \in 1..Len(history.fetched) : history.fetched[n].failed } }

\* C19: when a fetch of a cycle ended on an error that is not a rate limit,
\* the cycle still went through the whole list: at rest after it, a fetch
\* was made for every repository (or organization) of the list, in order,
\* and every series derived from what the fetches returned is in the gauge.
C19_FetchErrorDoesNotEndCycle ==
  (task \in {"runs", "runners", "orgRunners"} /\ AtRest /\ FailedScopes # {}) =>
    /\ FetchedScopes = SelectSeq(CycleList, Fetchable)
    /\ DerivedSeries \subseteq DOMAIN ObservedGauge

\* At rest after a cycle of the run collector over o/b and o/a in which the
\* fetch for o/b ended on an error: the gauge holds a series of o/a.
C19_Witness ==
  /\ task = "runs"
  /\ runsTask.pc = "idle"
  /\ runsTask.repos = <<"o/b", "o/a">>
  /\ FailedScopes = {"o/b"}
  /\ FetchedScopes = <<"o/b", "o/a">>
  /\ \E lv \in DOMAIN workflowRunStatusGauge : lv[1] = "o/a"

\* The series of the gauge that carry scope as their first label.
SeriesOf(scope) == { lv \in DOMAIN ObservedGauge : lv[1] = scope }

\* What the log holds for scope: the fetched runs that were taken through
\* the loop body, in order.
RunsLogged(scope) ==
  LET entries == SelectSeq(history.log, LAMBDA e : e.repo = scope)
  IN [k \in 1..Len(entries) |-> entries[k].run]

\* The series derived from the runs of scope that were taken through the
\* loop body.
RunSeriesLogged(scope) ==
  { history.log[k].series[1][1] :
      k \in { n \in 1..Len(history.log) :
                history.log[n].repo = scope /\ history.log[n].series # Nil } }

\* C20 (as stated): at rest after a cycle, the gauge holds no series of a
\* repository (or organization) whose fetch ended on an error in that cycle.
C20_NoSeriesOfFailedFetch ==
  AtRest => \A lv \in DOMAIN ObservedGauge : lv[1] \notin FailedScopes

\* C20: at rest after a cycle, the series of a repository (or organization)
\* whose fetch ended on an error are those derived from what the fetch
\* returned, the records of the pages before the error: none when the first
\* request failed, and the series of every record of the earlier pages
\* otherwise.
C20_FailedFetchPublishesEarlierPages ==
  (task \in {"runs", "runners", "orgRunners"} /\ AtRest) =>
    \A k \in 1..Len(history.fetched) :
      LET f == history.fetched[k] IN
      f.failed =>
        /\ f.result = <<>> => SeriesOf(f.scope) = {}
        /\ IF task = "runs"
           THEN /\ RunsLogged(f.scope) = f.result
                /\ SeriesOf(f.scope) = RunSeriesLogged(f.scope)
                /\ (\E n \in 1..Len(f.result) :
                      f.result[n] # Nil /\ f.result[n][1].ID # Nil)
                     => SeriesOf(f.scope) # {}
           ELSE SeriesOf(f.scope) = runnerSeries(f.scope, f.result)

\* At rest after a cycle in which the fetch of the runs of o/a ended on an
\* error after a page with a run: the gauge holds the series of that run.
C20_Witness ==
  /\ task = "runs"
  /\ runsTask.pc = "idle"
  /\ \E k \in 1..Len(history.fetched) :
       /\ history.fetched[k].scope = "o/a"
       /\ history.fetched[k].failed
       /\ history.fetched[k].result # <<>>
  /\ SeriesOf("o/a") # {}

-----------------------------------------------------------------------------
(* Rate limits at the usage endpoints *)

\* C21: a rate-limit error is never the answer a published value is derived
\* from: the duration published for a run stems from an answer of the usage
\* endpoint that is not a rate-limit error (the request was repeated until
\* it was answered otherwise).
C21_RateLimitIsNeverTheLastAnswer ==
  (Published /\ config.FetchWorkflowRunUsage) => UsageAnswer.err # "ratelimit"

-----------------------------------------------------------------------------
(* The derived fields of a run *)

\* The positions of a field name in the configured field list.
PositionsOf(fieldName) ==
  { i \in 1..Len(config.WorkflowFields) : config.WorkflowFields[i] = fieldName }

\* The first pull-request reference of a run (a pointer; Nil without one).
FirstPullRequest(run) ==
  IF Len(run.PullRequests) > 0 THEN run.PullRequests[1] ELSE Nil

\* The base ref of the first pull-request reference (a pointer).
BaseRef(run) ==
  IF FirstPullRequest(run) # Nil /\ FirstPullRequest(run)[1].Base # Nil
  THEN FirstPullRequest(run)[1].Base[1].Ref
  ELSE Nil

\* The target branch by the rule: base ref for a pull_request run that has
\* one, else the head branch, else the empty string.
TargetBranchByRule(run) ==
  IF run.Event = Ptr("pull_request") /\ BaseRef(run) # Nil
  THEN BaseRef(run)[1]
  ELSE AbsentAsEmpty(run.HeadBranch)

\* C22: the value published at a derived_target_branch position is the base
\* ref of the run's first pull-request reference when the event is exactly
\* "pull_request" and that base ref is present, otherwise the head branch
\* when present, otherwise the empty string; a pull_request run with base
\* ref main and head branch feature/x yields main, and a push run with head
\* branch release and no pull request yields release.
C22_TargetBranch ==
  Published =>
    \A lv \in DOMAIN workflowRunStatusGauge :
      \A i \in PositionsOf("derived_target_branch") :
        /\ lv[i] = TargetBranchByRule(GivenRun[1])
        /\ ( /\ GivenRun[1].Event = Ptr("pull_request")
             /\ BaseRef(GivenRun[1]) = Ptr("main")
             /\ GivenRun[1].HeadBranch = Ptr("feature/x") ) => lv[i] = "main"
        /\ ( /\ GivenRun[1].Event = Ptr("push")
             /\ GivenRun[1].PullRequests = <<>>
             /\ GivenRun[1].HeadBranch = Ptr("release") ) => lv[i] = "release"

\* A pull_request run with base ref main and head branch feature/x was
\* published with the target branch main.
C22_Witness ==
  /\ Published
  /\ GivenRun[1].Event = Ptr("pull_request")
  /\ BaseRef(GivenRun[1]) = Ptr("main")
  /\ GivenRun[1].HeadBranch = Ptr("feature/x")
  /\ \E lv \in DOMAIN workflowRunStatusGauge :
       \E i \in PositionsOf("derived_target_branch") : lv[i] = "main"

\* The title of the head commit: the first line of its message, trimmed (a
\* pointer; Nil without a commit or a message).
CommitTitle(run) ==
  IF run.HeadCommit # Nil /\ run.HeadCommit[1].Message # Nil
  THEN Ptr(Join(TrimSpace(FirstLine(run.HeadCommit[1].Message[1]))))
  ELSE Nil

\* The steps (b) to (d) of the preference order.
TitleAfterPullRequest(run) ==
  IF run.DisplayTitle # Nil /\ run.DisplayTitle[1] # ""
  THEN run.DisplayTitle[1]
  ELSE AbsentAsEmpty(CommitTitle(run))

\* The pull-request title is taken whenever the event is pull_request and a
\* pull-request reference exists: a reference without a title leaves the
\* derived title empty.
C23_TitleOfAnyReference ==
  Published =>
    \A lv \in DOMAIN workflowRunStatusGauge :
      \A i \in PositionsOf("derived_commit_pr_title") :
        lv[i] = IF /\ GivenRun[1].Event = Ptr("pull_request")
                   /\ FirstPullRequest(GivenRun[1]) # Nil
                THEN AbsentAsEmpty(FirstPullRequest(GivenRun[1])[1].Title)
                ELSE TitleAfterPullRequest(GivenRun[1])

\* C23: the value published at a derived_commit_pr_title position is (a) the
\* title of the first pull-request reference when the event is pull_request,
\* the reference exists and its title is present; else (b) the display title
\* when it is non-empty; else (c) the first line of the head commit's
\* message with surrounding whitespace trimmed; else (d) the empty string.
C23_TitlePreferenceOrder ==
  Published =>
    \A lv \in DOMAIN workflowRunStatusGauge :
      \A i \in PositionsOf("derived_commit_pr_title") :
        /\ lv[i] = IF /\ GivenRun[1].Event = Ptr("pull_request")
                      /\ FirstPullRequest(GivenRun[1]) # Nil
                      /\ FirstPullRequest(GivenRun[1])[1].Title # Nil
                   THEN FirstPullRequest(GivenRun[1])[1].Title[1]
                   ELSE TitleAfterPullRequest(GivenRun[1])
        /\ ( /\ GivenRun[1].Event # Ptr("pull_request")
             /\ GivenRun[1].DisplayTitle \in {Nil, Ptr("")}
             /\ GivenRun[1].HeadCommit =
                  Ptr([Message |-> Ptr(<<" ", "f", "i", "x", "\t", "\n", "b", "\n">>)]) )
            => lv[i] = "fix"

\* A pull_request run whose reference has no title was published with its
\* display title.
C23_Witness ==
  /\ Published
  /\ GivenRun[1].Event = Ptr("pull_request")
  /\ FirstPullRequest(GivenRun[1]) # Nil
  /\ FirstPullRequest(GivenRun[1])[1].Title = Nil
  /\ GivenRun[1].DisplayTitle = Ptr("Title")
  /\ \E lv \in DOMAIN workflowRunStatusGauge :
       \E i \in PositionsOf("derived_commit_pr_title") : lv[i] = "Title"

-----------------------------------------------------------------------------
(* The direct fields of a run *)

StringFields ==
  {"node_id", "head_branch", "head_sha", "path", "event", "display_title",
   "status", "conclusion"}

LoginFields == {"actor_login", "triggering_actor_login"}

NumberFields == {"run_id", "workflow_id", "run_number", "run_attempt"}

TimeFields == {"created_at_unix", "updated_at_unix", "run_started_at_unix"}

\* The attribute of the run a direct field reads (a pointer).
SourceOf(run, fieldName) ==
  CASE fieldName = "node_id" -> run.NodeID
    [] fieldName = "head_branch" -> run.HeadBranch
    [] fieldName = "head_sha" -> run.HeadSHA
    [] fieldName = "path" -> run.Path
    [] fieldName = "event" -> run.Event
    [] fieldName = "display_title" -> run.DisplayTitle
    [] fieldName = "status" -> run.Status
    [] fieldName = "conclusion" -> run.Conclusion
    [] fieldName = "actor_login" -> IF run.Actor = Nil THEN Nil ELSE run.Actor[1].Login
    [] fieldName = "triggering_actor_login" ->
         IF run.TriggeringActor = Nil THEN Nil ELSE run.TriggeringActor[1].Login
    [] fieldName = "run_id" -> run.ID
    [] fieldName = "workflow_id" -> run.WorkflowID
    [] fieldName = "run_number" -> run.RunNumber
    [] fieldName = "run_attempt" -> run.RunAttempt
    [] fieldName = "created_at_unix" -> run.CreatedAt
    [] fieldName = "updated_at_unix" -> run.UpdatedAt
    [] fieldName = "run_started_at_unix" -> run.RunStartedAt

\* The source value of a direct field is absent; for a timestamp, absent or
\* the zero time.
Absent(run, fieldName) ==
  \/ SourceOf(run, fieldName) = Nil
  \/ fieldName \in TimeFields /\ SourceOf(run, fieldName) = Ptr(ZeroTime)

ZeroValue(fieldName) == IF fieldName \in NumberFields \cup TimeFields THEN "0" ELSE ""

\* C24: a direct field whose source value is absent renders as the zero
\* value: the empty string for the string fields and the actor logins, "0"
\* for run_id, workflow_id, run_number, run_attempt and for the three
\* timestamp fields (for these also when the timestamp is the zero time);
\* this is the value getFieldValue gives for the run, and the value published
\* at the positions of the field.
C24_AbsentRendersAsZeroValue ==
  GivenRun # Nil =>
    \A f \in StringFields \cup LoginFields \cup NumberFields \cup TimeFields :
      Absent(GivenRun[1], f) =>
        /\ getFieldValue("o/a", GivenRun[1], f) = ZeroValue(f)
        /\ Published =>
             \A lv \in DOMAIN workflowRunStatusGauge :
               \A i \in PositionsOf(f) : lv[i] = ZeroValue(f)

\* A run that has nothing but its id was published under the default field
\* list: "0" as its run number and its three timestamps, the empty string as
\* its event and its actor login.
C24_Witness ==
  /\ Published
  /\ GivenRun[1] = [NilRun EXCEPT !.ID = Ptr(41)]
  /\ config.WorkflowFields = DefaultWorkflowFields
  /\ \E lv \in DOMAIN workflowRunStatusGauge :
       /\ \A f \in {"run_number", "created_at_unix", "updated_at_unix",
                     "run_started_at_unix"} : \A i \in PositionsOf(f) : lv[i] = "0"
       /\ \A f \in {"event", "actor_login"} : \A i \in PositionsOf(f) : lv[i] = ""

-----------------------------------------------------------------------------
(* The runner collectors *)

\* The gauge of the runner collector that is running.
OwnRunnersGauge == IF task = "runners" THEN runnersGauge ELSE runnersOrganizationGauge

\* The gauge of the other runner collector.
OtherRunnersGauge == IF task = "runners" THEN runnersOrganizationGauge ELSE runnersGauge

\* The runner record is null or lacks one of the five attributes.
Incomplete(runner) ==
  \/ runner = Nil
  \/ \E a \in {"ID", "Name", "OS", "Status", "Busy"} : runner[1][a] = Nil

\* The records the fetches of this cycle returned for a repository or an
\* organization.
RunnersFetched(scope) ==
  UNION { Range(history.fetched[k].result) :
            k \in { n \in 1..Len(history.fetched) : history.fetched[n].scope = scope } }

\* C25: in both runner collectors the series a cycle publishes for a
\* repository (or organization) are those of the complete records its fetch
\* returned: a record that is null or has a null id, name, os, status or busy
\* attribute produces no series, and every other record of the same fetch
\* has its series.
C25_IncompleteRunnersAreSkipped ==
  task \in {"runners", "orgRunners"} =>
    \A k \in 1..Len(history.fetched) :
      LET scope == history.fetched[k].scope IN
      { lv \in DOMAIN OwnRunnersGauge : lv[1] = scope } =
        { runnerLabels(scope, r) :
            r \in { x \in RunnersFetched(scope) : ~Incomplete(x) } }

\* The organization-runner collector was given runners without a name, an
\* os, a status and a busy flag, followed by two complete runners, and
\* published the two.
C25_Witness ==
  /\ task = "orgRunners"
  /\ \E k \in 1..Len(history.fetched) :
       LET f == history.fetched[k] IN
       /\ Len(f.result) = 6
       /\ \A n \in 1..4 : Incomplete(f.result[n])
       /\ { lv \in DOMAIN runnersOrganizationGauge : lv[1] = f.scope } =
            { <<f.scope, "windows", "r7", "7", "false">>,
              <<f.scope, "linux", "r8", "8", "true">> }

\* C26: the value published for a complete runner is 1 when its status is
\* exactly "online" and 0 for every other status, in both runner collectors;
\* a collector writes to its own gauge only: the repository collector leaves
\* github_runner_organization_status without series and the organization
\* collector leaves github_runner_status without series.
C26_OnlineIsOneElseZero ==
  task \in {"runners", "orgRunners"} =>
    /\ \A k \in 1..Len(history.fetched) :
         LET f == history.fetched[k] IN
         \A n \in 1..Len(f.result) :
           ~Incomplete(f.result[n]) =>
             LET lv == <<f.scope, f.result[n][1].OS[1], f.result[n][1].Name[1],
                         FormatInt(f.result[n][1].ID[1]),
                         FormatBool(f.result[n][1].Busy[1])>>
             IN /\ lv \in DOMAIN OwnRunnersGauge
                /\ OwnRunnersGauge[lv] =
                     IF f.result[n][1].Status = Ptr("online") THEN 1 ELSE 0
    /\ OtherRunnersGauge = EmptyGauge

\* The repository-runner collector published 0 for a runner whose status is
\* "Online" and 1 for a runner whose status is "online".
C26_Witness ==
  /\ task = "runners"
  /\ \E lv \in DOMAIN runnersGauge : lv[3] = "r7" /\ runnersGauge[lv] = 0
  /\ \E lv \in DOMAIN runnersGauge : lv[3] = "r1" /\ runnersGauge[lv] = 1
  /\ runnersOrganizationGauge = EmptyGauge

-----------------------------------------------------------------------------
(* The billing collector *)

\* A billing cycle has ended: the collector is back at its ticker and has
\* visited every repository of the cache it was given.
AfterBillingCycle ==
  /\ task = "bill"
  /\ billTask.pc = "idle"
  /\ DOMAIN billTask.cache # {}
  /\ { history.log[k].repo : k \in 1..Len(history.log) } = DOMAIN billTask.cache

\* The usage map of an answer: the totals of the operating systems that
\* carry one; empty when the fetch failed or gave no map.
TotalsOf(result) ==
  IF result.err = "none" /\ result.usage # Nil /\ result.usage[1].Billable # Nil
  THEN LET bill == result.usage[1].Billable[1]
       IN [os \in { o \in DOMAIN bill : bill[o] # Nil /\ bill[o][1].TotalMS # Nil } |->
             bill[os][1].TotalMS[1]]
  ELSE <<>>

\* The definition has an id, a name, a node id and a state.
WithAllFour(w) ==
  w # Nil /\ \A a \in {"ID", "Name", "NodeID", "State"} : w[1][a] # Nil

\* The series the rule gives for the visit k of the cycle, each with its
\* value in whole seconds and thousandths.
BilledByRule(k) ==
  LET entry == history.log[k]
      billed == { id \in DOMAIN entry.definitions : WithAllFour(entry.definitions[id]) }
  IN UNION { { [labels |-> <<entry.repo, FormatInt(id),
                            entry.definitions[id][1].NodeID[1],
                            entry.definitions[id][1].Name[1],
                            entry.definitions[id][1].State[1], ToUpper(os)>>,
               value |-> [whole |-> TotalsOf(entry.results[id])[os] \div 1000,
                          thousandths |-> TotalsOf(entry.results[id])[os] % 1000]] :
               os \in DOMAIN TotalsOf(entry.results[id]) } :
             id \in billed }

\* C27: after a billing cycle the billing gauge holds, for every definition
\* of the cache with an id, a name, a node id and a state whose usage fetch
\* succeeded, one series per operating system of its usage map that carries
\* a total, labelled with the key in upper case and valued the total
\* milliseconds divided by 1000, and no other series: a definition that is
\* incomplete or whose usage fetch failed contributes none.
C27_BillingSeries ==
  AfterBillingCycle =>
    /\ \A k \in 1..Len(history.log) :
         /\ history.log[k].definitions = billTask.cache[history.log[k].repo]
         /\ \A s \in BilledByRule(k) :
              /\ s.labels \in DOMAIN workflowBillGauge
              /\ workflowBillGauge[s.labels] = s.value
              /\ s.labels[6] \in {"UBUNTU", "MACOS", "WINDOWS"}
    /\ DOMAIN workflowBillGauge =
         UNION { { s.labels : s \in BilledByRule(k) } : k \in 1..Len(history.log) }

\* A cycle ended with 61.5 seconds under UBUNTU and 0 seconds under MACOS
\* (from the key macos) for one definition, nothing for its key without a
\* total, and with a definition whose usage fetch failed.
C27_Witness ==
  /\ AfterBillingCycle
  /\ \E lv \in DOMAIN workflowBillGauge :
       /\ lv[6] = "UBUNTU"
       /\ workflowBillGauge[lv] = [whole |-> 61, thousandths |-> 500]
       /\ [lv EXCEPT ![6] = "MACOS"] \in DOMAIN workflowBillGauge
       /\ workflowBillGauge[[lv EXCEPT ![6] = "MACOS"]] = [whole |-> 0, thousandths |-> 0]
       /\ [lv EXCEPT ![6] = "WINDOWS"] \notin DOMAIN workflowBillGauge
  /\ \E k \in 1..Len(history.log) :
       \E id \in DOMAIN history.log[k].results : history.log[k].results[id].err # "none"

-----------------------------------------------------------------------------
(* 64-bit integers.  An int64 is a sign and a magnitude; the magnitude is *)
(* a sequence of digits in base Radix, lowest first, without leading zero *)
(* digits, so that the products of time.Duration are computed with the    *)
(* width they have in the program.                                        *)

Radix == 10000

RECURSIVE Digits(_)
\* The magnitude of a natural number.
Digits(n) == IF n = 0 THEN <<>> ELSE <<n % Radix>> \o Digits(n \div Radix)

RECURSIVE Trim(_)
\* The magnitude without leading zero digits.
Trim(m) == IF m # <<>> /\ m[Len(m)] = 0 THEN Trim(SubSeq(m, 1, Len(m) - 1)) ELSE m

RECURSIVE BelowDigits(_, _)
\* a < b, for magnitudes of the same length.
BelowDigits(a, b) ==
  IF a = <<>>
  THEN FALSE
  ELSE IF a[Len(a)] # b[Len(b)]
       THEN a[Len(a)] < b[Len(b)]
       ELSE BelowDigits(SubSeq(a, 1, Len(a) - 1), SubSeq(b, 1, Len(b) - 1))

\* a < b, for magnitudes.
Below(a, b) == IF Len(a) # Len(b) THEN Len(a) < Len(b) ELSE BelowDigits(a, b)

RECURSIVE Plus(_, _, _)
\* a + b + carry.
Plus(a, b, carry) ==
  IF a = <<>> /\ b = <<>>
  THEN IF carry = 0 THEN <<>> ELSE <<carry>>
  ELSE LET t == (IF a = <<>> THEN 0 ELSE Head(a)) + (IF b = <<>> THEN 0 ELSE Head(b)) + carry
       IN <<t % Radix>> \o Plus(IF a = <<>> THEN <<>> ELSE Tail(a),
                                IF b = <<>> THEN <<>> ELSE Tail(b), t \div Radix)

RECURSIVE Minus(_, _, _)
\* a - b - borrow, for a >= b + borrow; leading zero digits are left.
Minus(a, b, borrow) ==
  IF a = <<>>
  THEN <<>>
  ELSE LET t == Head(a) - (IF b = <<>> THEN 0 ELSE Head(b)) - borrow
       IN <<IF t < 0 THEN t + Radix ELSE t>>
            \o Minus(Tail(a), IF b = <<>> THEN <<>> ELSE Tail(b), IF t < 0 THEN 1 ELSE 0)

RECURSIVE TimesDigit(_, _, _)
\* a * d + carry, for a digit d.
TimesDigit(a, d, carry) ==
  IF a = <<>>
  THEN IF carry = 0 THEN <<>> ELSE <<carry>>
  ELSE LET t == Head(a) * d + carry
       IN <<t % Radix>> \o TimesDigit(Tail(a), d, t \div Radix)

RECURSIVE Times(_, _)
\* a * b.
Times(a, b) ==
  IF b = <<>>
  THEN <<>>
  ELSE LET rest == Times(a, Tail(b))
       IN Trim(Plus(TimesDigit(a, Head(b), 0),
                    IF rest = <<>> THEN <<>> ELSE <<0>> \o rest, 0))

\* 2^63 = 9223372036854775808 and 2^64 = 18446744073709551616.
TwoTo63 == <<5808, 5477, 368, 3372, 922>>

TwoTo64 == <<1616, 955, 737, 6744, 1844>>

\* The int64 of a small integer.
Int64(n) == [neg |-> n < 0, mag |-> Digits(IF n < 0 THEN 0 - n ELSE n)]

\* The int64 of a magnitude written in digits.
Int64Of(m) == [neg |-> FALSE, mag |-> m]

RECURSIVE Reduce(_, _)
\* m modulo d: m modulo 2d, less d where that is not below d.
Reduce(m, d) ==
  IF Below(m, d)
  THEN m
  ELSE LET r == Reduce(m, Trim(TimesDigit(d, 2, 0)))
       IN IF Below(r, d) THEN r ELSE Trim(Minus(r, d, 0))

\* The value an int64 holds after an operation whose exact result is v: v
\* modulo 2^64, in -2^63 .. 2^63 - 1.
Wrap(v) ==
  LET r == Reduce(v.mag, TwoTo64)
      u == IF v.neg /\ r # <<>> THEN Trim(Minus(TwoTo64, r, 0)) ELSE r
  IN IF Below(u, TwoTo63)
     THEN [neg |-> FALSE, mag |-> u]
     ELSE [neg |-> TRUE, mag |-> Trim(Minus(TwoTo64, u, 0))]

\* The exact product of two integers.
Product(x, y) ==
  [neg |-> (x.neg # y.neg) /\ Times(x.mag, y.mag) # <<>>, mag |-> Times(x.mag, y.mag)]

\* x * y in int64.
Mul(x, y) == Wrap(Product(x, y))

\* x <= 0 and x < y.
NotPositive(x) == x.neg \/ x.mag = <<>>

LessThan(x, y) ==
  IF x.neg # y.neg THEN x.neg
  ELSE IF x.neg THEN Below(y.mag, x.mag) ELSE Below(x.mag, y.mag)

\* time.Second, in nanoseconds.
Second == Int64(1000000000)

\* time.NewTicker(d): a ticker of period d (a pointer); it panics, and the
\* process ends, when d is not positive (Nil).
NewTicker(d) == IF NotPositive(d) THEN Nil ELSE Ptr(d)

-----------------------------------------------------------------------------
(* SpecTickers: the start of each goroutine, from its first statement to  *)
(* the creation of its ticker.  The options Refresh and                   *)
(* WorkflowCacheRefreshIntervalSeconds are int64 numbers of seconds.      *)

\* The options with the two intervals.
TimedConfig(repos, orgas, cacheRefresh, refresh) ==
  [Repositories |-> repos, Organizations |-> orgas,
   WorkflowFields |-> <<"repo", "status">>, FetchWorkflowRunUsage |-> FALSE,
   WorkflowCacheRefreshIntervalSeconds |-> cacheRefresh, Refresh |-> refresh]

\* periodicGithubFetcher: the interval of the refresher, in seconds.
refreshIntervalSeconds(configured) ==
  LET defaulted == IF NotPositive(configured) THEN Int64(3600) ELSE configured
  IN IF LessThan(defaulted, Int64(60)) THEN Int64(60) ELSE defaulted

\* getRunnersFromGithub and getRunnersOrganizationFromGithub: the interval
\* of the two runner collectors.
refreshInterval(refresh) ==
  IF NotPositive(refresh) THEN Mul(Int64(60), Second) ELSE Mul(refresh, Second)

\* getBillableFromGithub: the interval of the billing collector.
billRefreshInterval(refresh) ==
  IF NotPositive(refresh)
  THEN Mul(Int64(300), Second)
  ELSE Mul(Mul(refresh, Int64(5)), Second)

\* getWorkflowRunsFromGithub: the interval handed to time.NewTicker.
refreshTickerInterval(refresh) == Mul(refresh, Second)

\* A goroutine after time.NewTicker(d): at its loop with the ticker, or
\* gone with the process in the panic of NewTicker.
Ticking(d) ==
  [pc |-> IF NewTicker(d) = Nil THEN "panic" ELSE "idle", ticker |-> NewTicker(d)]

\* periodicGithubFetcher up to its loop.
FetcherNewTicker ==
  /\ task = "refresh"
  /\ fetcher.pc = "start"
  /\ fetcher' = Ticking(Mul(refreshIntervalSeconds(
                              config.WorkflowCacheRefreshIntervalSeconds), Second))
  /\ UNCHANGED <<config, repositories, workflows, workflowRunStatusGauge,
                 workflowRunDurationGauge, runnersGauge, runnersOrganizationGauge,
                 workflowBillGauge, runsTask, runnersTask, orgRunnersTask,
                 billTask, pager, task, history>>

\* getWorkflowRunsFromGithub up to its loop: it returns when the repository
\* list is empty.
RunsNewTicker ==
  /\ task = "runs"
  /\ runsTask.pc = "start"
  /\ runsTask' = IF Len(repositories) = 0
                 THEN [pc |-> "stopped", ticker |-> Nil]
                 ELSE Ticking(refreshTickerInterval(config.Refresh))
  /\ UNCHANGED <<workflowRunStatusGauge, workflowRunDurationGauge, history>>
  /\ UNCHANGED notRuns

\* getRunnersFromGithub up to its loop.
RunnersNewTicker ==
  /\ task = "runners"
  /\ runnersTask.pc = "start"
  /\ runnersTask' = Ticking(refreshInterval(config.Refresh))
  /\ UNCHANGED <<runnersGauge, history>>
  /\ UNCHANGED notRunners

\* getRunnersOrganizationFromGithub up to its loop: it returns when no
\* organization is configured.
OrgRunnersNewTicker ==
  /\ task = "orgRunners"
  /\ orgRunnersTask.pc = "start"
  /\ orgRunnersTask' = IF Len(config.Organizations) = 0
                       THEN [pc |-> "stopped", ticker |-> Nil]
                       ELSE Ticking(refreshInterval(config.Refresh))
  /\ UNCHANGED <<runnersOrganizationGauge, history>>
  /\ UNCHANGED notOrgRunners

\* getBillableFromGithub up to its loop.
BillNewTicker ==
  /\ task = "bill"
  /\ billTask.pc = "start"
  /\ billTask' = Ticking(billRefreshInterval(config.Refresh))
  /\ UNCHANGED <<workflowBillGauge, history>>
  /\ UNCHANGED notBill

\* Numbers of seconds: around the thresholds 0 and 60, ordinary intervals,
\* and around the largest numbers of seconds whose nanoseconds, and five
\* times whose nanoseconds, an int64 holds (9223372036 and 1844674407).
IntervalInputs ==
  { Int64(n) : n \in {-60, -1, 0, 1, 30, 59, 60, 61, 3599, 3600, 3601, 86400,
                      1844674407, 1844674408} }
    \cup { Int64Of(<<2036, 2337, 92>>), Int64Of(<<2037, 2337, 92>>) }

\* Whoever is started alone: the goroutine at its first statement.
Started(t, who) == IF t = who THEN [pc |-> "start"] ELSE Unused

InitTickers ==
  \E t \in Tasks \cup {"refresh"}, seconds \in IntervalInputs,
     repos \in {<<>>, <<"o/a">>}, orgas \in {<<>>, <<"o">>} :
    /\ task = t
    /\ config = IF t = "refresh"
                THEN TimedConfig(repos, orgas, seconds, Int64(30))
                ELSE TimedConfig(repos, orgas, Int64(3600), seconds)
    /\ repositories = repos
    /\ workflows = <<>>
    /\ workflowRunStatusGauge = EmptyGauge
    /\ workflowRunDurationGauge = EmptyGauge
    /\ runnersGauge = EmptyGauge
    /\ runnersOrganizationGauge = EmptyGauge
    /\ workflowBillGauge = EmptyGauge
    /\ fetcher = Started(t, "refresh")
    /\ runsTask = Started(t, "runs")
    /\ runnersTask = Started(t, "runners")
    /\ orgRunnersTask = Started(t, "orgRunners")
    /\ billTask = Started(t, "bill")
    /\ pager = Unused
    /\ history = NoHistory

NextTickers ==
  \/ FetcherNewTicker
  \/ RunsNewTicker
  \/ RunnersNewTicker
  \/ OrgRunnersNewTicker
  \/ BillNewTicker

SpecTickers == InitTickers /\ [][NextTickers]_vars

\* The exact number of nanoseconds of a number of seconds.
Nanoseconds(seconds) == Product(seconds, Second)

\* The goroutine that was started has created its ticker or has ended.
OwnTask ==
  CASE task = "refresh" -> fetcher
    [] task = "runs" -> runsTask
    [] task = "runners" -> runnersTask
    [] task = "orgRunners" -> orgRunnersTask
    [] task = "bill" -> billTask

\* C28: for every configured workflow-cache refresh interval c, the ticker
\* of the refresher has a period of at least 60 seconds: of 3600 seconds
\* when c <= 0, of 60 seconds when 0 < c < 60, and of c seconds otherwise.
C28_RefreshIntervalAtLeastAMinute ==
  (task = "refresh" /\ fetcher.pc # "start") =>
    LET c == config.WorkflowCacheRefreshIntervalSeconds
        used == IF NotPositive(c) THEN Int64(3600)
                ELSE IF LessThan(c, Int64(60)) THEN Int64(60) ELSE c
    IN /\ fetcher.ticker # Nil
       /\ fetcher.ticker[1] = Nanoseconds(used)
       /\ ~LessThan(fetcher.ticker[1], Nanoseconds(Int64(60)))

\* C29: for every configured refresh value, a collector that reaches its
\* loop has a ticker: of refresh seconds in the run collector and in the two
\* runner collectors, of five times as many in the billing collector; when
\* the refresh value is not positive the ticker has a positive period all
\* the same, one period in the run collector and the two runner collectors
\* and five times that period in the billing collector.
C29_SameIntervalAndFiveTimes ==
  (task \in Tasks /\ OwnTask.pc \notin {"start", "stopped"}) =>
    LET shared == IF NotPositive(config.Refresh)
                  THEN refreshInterval(config.Refresh)
                  ELSE Nanoseconds(config.Refresh)
    IN /\ OwnTask.ticker # Nil
       /\ ~NotPositive(OwnTask.ticker[1])
       /\ OwnTask.ticker[1] =
            IF task = "bill" THEN Product(shared, Int64(5)) ELSE shared

-----------------------------------------------------------------------------
(* SpecStart: InitMetrics and the goroutines it starts.  task is the       *)
(* position of InitMetrics: "init" before the first go statement, "sleep"  *)
(* in the ten seconds after it, "runs" once the run collector is started.  *)

\* A goroutine no go statement has started.
NotStarted == [pc |-> "notStarted"]

\* go periodicGithubFetcher()
InitMetricsGoFetcher ==
  /\ task = "init"
  /\ task' = "sleep"
  /\ fetcher' = StartingFetcher
  /\ UNCHANGED <<config, repositories, workflows, workflowRunStatusGauge,
                 workflowRunDurationGauge, runnersGauge, runnersOrganizationGauge,
                 workflowBillGauge, runsTask, runnersTask, orgRunnersTask,
                 billTask, pager, history>>

\* The end of the sleep and go getWorkflowRunsFromGithub(), the last go
\* statement of InitMetrics.
InitMetricsGoRuns ==
  /\ task = "sleep"
  /\ task' = "runs"
  /\ runsTask' = [runsTask EXCEPT !.pc = "start"]
  /\ UNCHANGED <<config, repositories, workflows, workflowRunStatusGauge,
                 workflowRunDurationGauge, runnersGauge, runnersOrganizationGauge,
                 workflowBillGauge, fetcher, runnersTask, orgRunnersTask,
                 billTask, pager, history>>

InitStart ==
  \E source \in SourceInputs :
    /\ task = "init"
    /\ config = Config(source.Repositories, source.Organizations, <<"repo", "status">>, FALSE)
    /\ repositories = <<>>
    /\ workflows = <<>>
    /\ workflowRunStatusGauge = EmptyGauge
    /\ workflowRunDurationGauge = EmptyGauge
    /\ runnersGauge = EmptyGauge
    /\ runnersOrganizationGauge = EmptyGauge
    /\ workflowBillGauge = EmptyGauge
    /\ fetcher = [StartingFetcher EXCEPT !.pc = "notStarted"]
    /\ runsTask = [IdleRuns EXCEPT !.pc = "notStarted"]
    /\ runnersTask = NotStarted
    /\ orgRunnersTask = NotStarted
    /\ billTask = NotStarted
    /\ pager = Unused
    /\ history = NoHistory

\* The steps of the refresher and of the run collector.
FetcherStep == FetcherResolve \/ FetcherBuild \/ FetcherSettle \/ FetcherTick

RunsStep == RunsStart \/ RunsTick \/ RunsRepo \/ RunsRun \/ RunsFinish

NextStart ==
  \/ InitMetricsGoFetcher
  \/ InitMetricsGoRuns
  \/ FetcherResolve \/ FetcherBuild \/ FetcherSettle \/ FetcherTick
  \/ RunsStart \/ RunsTick \/ RunsRepo \/ RunsRun \/ RunsFinish

\* Every goroutine that can take a step takes one in the end: InitMetrics
\* goes on, a ticker fires, a call to the API returns.
SpecStart ==
  /\ InitStart
  /\ [][NextStart]_vars
  /\ WF_vars(InitMetricsGoFetcher \/ InitMetricsGoRuns)
  /\ WF_vars(FetcherStep)
  /\ WF_vars(RunsStep)

\* C30: after the initialisation the refresher and each of the four
\* collectors eventually execute a cycle: the refresher resolves the
\* repository list, and the run collector, the repository-runner collector,
\* the organization-runner collector and the billing collector each come to
\* the loop of a cycle.
C30_EveryTaskExecutesACycle ==
  /\ <>(fetcher.pc \in {"build", "publish", "wait"})
  /\ <>(runsTask.pc \in {"repos", "runs"})
  /\ <>(runnersTask.pc = "repos")
  /\ <>(orgRunnersTask.pc = "orgs")
  /\ <>(billTask.pc = "workflows")


-----------------------------------------------------------------------------
(* The repository list of one cycle *)

\* The collector under observation is in the loop of a cycle.
InCycle ==
  CASE task = "runs" -> runsTask.pc \in {"repos", "runs"}
    [] task = "runners" -> runnersTask.pc = "repos"
    [] OTHER -> FALSE

\* How many entries of the cycle's list the loop has taken up so far.
TakenUp ==
  CASE task = "runs" -> IF runsTask.pc = "runs" THEN runsTask.i ELSE runsTask.i - 1
    [] task = "runners" -> runnersTask.i - 1
    [] OTHER -> 0

\* C31: the repository list of a cycle of the run collector or of the
\* repository-runner collector is the one loaded when the cycle began:
\* at every moment of the cycle, whatever the refresher has assigned to
\* repositories meanwhile, the fetches made so far are those for the
\* owner/name entries of that list taken up so far, in its order.
C31_CycleKeepsItsRepositoryList ==
  InCycle =>
    /\ TakenUp <= Len(CycleList)
    /\ FetchedScopes = SelectSeq(SubSeq(CycleList, 1, TakenUp), Fetchable)

\* The run collector began a cycle over o/b and o/a and has fetched for
\* o/b; the refresher has replaced the list by the empty one meanwhile, and
\* the loop is about to take up o/a.
C31_Witness ==
  /\ task = "runs"
  /\ runsTask.pc = "repos"
  /\ runsTask.repos = <<"o/b", "o/a">>
  /\ ~runsTask.stray
  /\ runsTask.i = 2
  /\ FetchedScopes = <<"o/b">>
  /\ repositories = <<>>
  /\ fetcher.pc = "wait"


-----------------------------------------------------------------------------
(* The keys of the cache and the repository list *)

\* The repositories the billing cycle in progress has set a series for.
BilledRepositories ==
  { lv[1] : lv \in { x \in DOMAIN workflowBillGauge : history.stamps[x] = "cur" } }

\* C32 as stated: in every state every key of the cache is in the
\* repository list, and the billing cycle in progress has set series for
\* repositories of the list only.
C32_CacheKeysAreMonitored ==
  /\ DOMAIN workflows \subseteq Range(repositories)
  /\ (task = "bill" /\ billTask.pc = "workflows") =>
       BilledRepositories \subseteq Range(repositories)

\* C32: in every state but those of a refresh between its assignment of
\* the repository list and its assignment of the cache, every key of the
\* cache is in the repository list; and a billing cycle sets series for
\* keys of the cache it loaded at its tick only.
C32_CacheKeysMonitoredOutsideRefresh ==
  /\ fetcher.pc # "build" => DOMAIN workflows \subseteq Range(repositories)
  /\ (task = "bill" /\ billTask.pc = "workflows") =>
       BilledRepositories \subseteq DOMAIN billTask.cache

\* A billing cycle loaded a cache with o/b and has set a series for it; a
\* refresh has since resolved the list to o/a alone and built its cache:
\* the cache is within the list, the series of o/b is not.
C32_Witness ==
  /\ task = "bill"
  /\ billTask.pc = "workflows"
  /\ "o/b" \in DOMAIN billTask.cache
  /\ "o/b" \in BilledRepositories
  /\ fetcher.pc = "wait"
  /\ repositories = <<"o/a">>
  /\ DOMAIN workflows = {"o/a"}


-----------------------------------------------------------------------------
(* The entries of the cache after a refresh *)

\* The runs of the pages of the model.
SampleRuns ==
  { x[1] : x \in UNION { Range(items) : items \in PageItems("runs") } \ {Nil} }

\* The fetch of the last refresh for repository r returned a definition.
FetchedSome(r) ==
  r \in DOMAIN fetcher.fetched /\ DOMAIN fetcher.fetched[r] # {}

\* C33: after a refresh a repository is a key of the cache exactly when
\* its fetch in that refresh returned at least one definition (each stored
\* under its non-null id); the entry is what the fetch returned.  A
\* repository whose fetch returned nothing, or whose name is not owner/name
\* (no fetch is made for it), has no entry, whatever the cache held before,
\* and every run of it resolves to unknown_workflow_name.
C33_KeyIffDefinitionsFetched ==
  fetcher.pc = "wait" =>
    /\ DOMAIN fetcher.fetched = { r \in Range(repositories) : Len(ownerAndRepo(r)) = 2 }
    /\ \A r \in Range(repositories) \cup DOMAIN workflows :
         IF FetchedSome(r)
         THEN /\ r \in DOMAIN workflows
              /\ workflows[r] = fetcher.fetched[r]
              /\ \A id \in DOMAIN workflows[r] :
                   workflows[r][id] # Nil /\ workflows[r][id][1].ID = Ptr(id)
         ELSE /\ r \notin DOMAIN workflows
              /\ \A run \in SampleRuns :
                   getFieldValue(r, run, "workflow_name") = "unknown_workflow_name"

\* After a refresh over o/b and o/a in which two definitions were fetched
\* for o/b and none for o/a: the cache has an entry for o/b alone.
C33_Witness ==
  /\ fetcher.pc = "wait"
  /\ repositories = <<"o/b", "o/a">>
  /\ DOMAIN fetcher.fetched = {"o/a", "o/b"}
  /\ DOMAIN fetcher.fetched["o/b"] = {7, 8}
  /\ DOMAIN fetcher.fetched["o/a"] = {}
  /\ DOMAIN workflows = {"o/b"}


-----------------------------------------------------------------------------
(* SpecBill: the loop of the billing collector over the definitions of one *)
(* repository of the cache, call by call.  billTask.pc is "workflows" at   *)
(* the head of the loop over the definitions, "attempt" at the head of the *)
(* retry loop, "after" behind it and "done" behind the loop over the       *)
(* definitions; id is the definition in hand, i the counter of the retry   *)
(* loop, answer what the last call returned (usageData and errApi).  The   *)
(* observer keeps calls, the answers to the calls made for each definition.*)

\* The definitions of the repository: one; two; two of which the first has
\* no name.
BillInputs ==
  { [id \in {7} |-> Ptr(Workflow(7, Ptr("CI")))],
    [id \in {7, 8} |->
       IF id = 7 THEN Ptr(Workflow(7, Ptr("CI"))) ELSE Ptr(Workflow(8, Ptr("Deploy")))],
    [id \in {7, 8} |->
       IF id = 7 THEN Ptr(Workflow(7, Nil)) ELSE Ptr(Workflow(8, Ptr("Deploy")))] }

\* Everything but the billing collector and its gauge.
notBillLoop == <<config, repositories, workflows, workflowRunStatusGauge,
                 workflowRunDurationGauge, runnersGauge, runnersOrganizationGauge,
                 fetcher, runsTask, runnersTask, orgRunnersTask, pager, task, history>>

\* One iteration of `range repoWorkflowsMap` up to the retry loop: an
\* incomplete definition is skipped.
BillDefinition ==
  /\ task = "billLoop"
  /\ billTask.pc = "workflows"
  /\ \E workflowID \in billTask.left :
       billTask' =
         IF CompleteDefinition(billTask.definitions[workflowID])
         THEN [billTask EXCEPT !.pc = "attempt", !.id = workflowID, !.i = 0,
                               !.answer = Nil]
         ELSE [billTask EXCEPT !.left = @ \ {workflowID}]
  /\ UNCHANGED workflowBillGauge
  /\ UNCHANGED notBillLoop

\* A call whose rate-limited answers do not count as attempts.
BillAttemptUncountedRateLimit ==
  /\ task = "billLoop"
  /\ billTask.pc = "attempt"
  /\ \E answer \in UsageAnswers :
       billTask' =
         [billTask EXCEPT
            !.answer = Ptr(answer),
            !.calls[billTask.id] = Append(@, answer),
            !.i = IF answer.err = "other" THEN @ + 1 ELSE @,
            !.pc = IF answer.err = "none"
                      \/ (answer.err = "other" /\ billTask.i + 1 >= MaxAttempts)
                   THEN "after"
                   ELSE "attempt"]
  /\ UNCHANGED workflowBillGauge
  /\ UNCHANGED notBillLoop

\* One iteration of `for i := 0; i < 3; i++`: the call; on a rate limit
\* the sleep and `continue`, on another error the short sleep, both of
\* which lead to i++ and the test of i; else `break`.
BillAttempt ==
  /\ task = "billLoop"
  /\ billTask.pc = "attempt"
  /\ \E answer \in UsageAnswers :
       billTask' =
         [billTask EXCEPT
            !.answer = Ptr(answer),
            !.calls[billTask.id] = Append(@, answer),
            !.i = IF answer.err = "none" THEN @ ELSE @ + 1,
            !.pc = IF answer.err = "none" \/ billTask.i + 1 >= MaxAttempts
                   THEN "after"
                   ELSE "attempt"]
  /\ UNCHANGED workflowBillGauge
  /\ UNCHANGED notBillLoop

\* Behind the retry loop: without an answer that succeeded the definition
\* is skipped, else the series of its usage map are set; then the next
\* definition.
BillAfterRetries ==
  /\ task = "billLoop"
  /\ billTask.pc = "after"
  /\ LET one == {billTask.id}
     IN workflowBillGauge' =
          setBillable(workflowBillGauge, billTask.repo,
                      [id \in one |-> billTask.definitions[id]],
                      [id \in one |-> billTask.answer[1]])
  /\ billTask' = [billTask EXCEPT !.pc = "workflows", !.left = @ \ {billTask.id}]
  /\ UNCHANGED notBillLoop

\* The loop over the definitions has visited them all.
BillDefinitionsDone ==
  /\ task = "billLoop"
  /\ billTask.pc = "workflows"
  /\ billTask.left = {}
  /\ billTask' = [billTask EXCEPT !.pc = "done"]
  /\ UNCHANGED workflowBillGauge
  /\ UNCHANGED notBillLoop

InitBill ==
  \E repoWorkflowsMap \in BillInputs :
    /\ task = "billLoop"
    /\ config = Config(<<"o/a">>, <<>>, <<"repo", "status">>, FALSE)
    /\ repositories = <<"o/a">>
    /\ workflows = [r \in {"o/a"} |-> repoWorkflowsMap]
    /\ workflowRunStatusGauge = EmptyGauge
    /\ workflowRunDurationGauge = EmptyGauge
    /\ runnersGauge = EmptyGauge
    /\ runnersOrganizationGauge = EmptyGauge
    /\ workflowBillGauge = EmptyGauge
    /\ fetcher = Unused
    /\ runsTask = Unused
    /\ runnersTask = Unused
    /\ orgRunnersTask = Unused
    /\ billTask = [pc |-> "workflows", repo |-> "o/a", definitions |-> repoWorkflowsMap,
                   left |-> DOMAIN repoWorkflowsMap, id |-> 0, i |-> 0, answer |-> Nil,
                   calls |-> [id \in DOMAIN repoWorkflowsMap |-> <<>>]]
    /\ pager = Unused
    /\ history = NoHistory

NextBill == BillDefinition \/ BillAttempt \/ BillAfterRetries \/ BillDefinitionsDone

\* Every call to the API returns and every sleep ends (a rate-limit sleep
\* lasts until the reset instant the answer names).
SpecBill == InitBill /\ [][NextBill]_vars /\ WF_vars(NextBill)


\* The series of the billing gauge that belong to definition id.
SeriesOfDefinition(id) == { lv \in DOMAIN workflowBillGauge : lv[2] = FormatInt(id) }

\* The definition has been visited by the loop over the definitions.
Visited(id) == id \notin billTask.left

\* C34: the usage endpoint is called at most three times for a definition
\* in a cycle, rate-limited calls counted; no call follows one that
\* succeeded, and the series of its usage map are then set; the calls end
\* only on a success or with the third call, and after a third call that
\* failed the definition has no series and the loop goes on to the other
\* definitions; the loop over the definitions comes to its end, with every
\* definition visited.
C34_AtMostThreeCallsAndTheCycleEnds ==
  /\ <>(billTask.pc = "done")
  /\ [](billTask.pc = "done" => billTask.left = {})
  /\ [](\A id \in DOMAIN billTask.definitions :
          LET calls == billTask.calls[id]
              w == billTask.definitions[id]
          IN /\ Len(calls) <= 3
             /\ \A k \in 1..(Len(calls) - 1) : calls[k].err # "none"
             /\ Visited(id) =>
                  IF ~WithAllFour(w)
                  THEN calls = <<>> /\ SeriesOfDefinition(id) = {}
                  ELSE /\ calls # <<>>
                       /\ calls[Len(calls)].err = "none" \/ Len(calls) = 3
                       /\ LET totals == TotalsOf(calls[Len(calls)])
                          IN /\ SeriesOfDefinition(id) =
                                  { billLabels(billTask.repo, w, os) : os \in DOMAIN totals }
                             /\ \A os \in DOMAIN totals :
                                  workflowBillGauge[billLabels(billTask.repo, w, os)] =
                                    [whole |-> totals[os] \div 1000,
                                     thousandths |-> totals[os] % 1000])

\* The loop over two definitions has ended: three calls were made for
\* definition 7, the first rate-limited, none succeeded, and it has no
\* series; the second call for definition 8 succeeded and its series are
\* set.
C34_Witness ==
  /\ billTask.pc = "done"
  /\ DOMAIN billTask.definitions = {7, 8}
  /\ Len(billTask.calls[7]) = 3
  /\ billTask.calls[7][1].err = "ratelimit"
  /\ billTask.calls[7][3].err = "other"
  /\ SeriesOfDefinition(7) = {}
  /\ Len(billTask.calls[8]) = 2
  /\ billTask.calls[8][2].err = "none"
  /\ SeriesOfDefinition(8) # {}


-----------------------------------------------------------------------------
(* Runs with the same label vector *)

\* The label vector of an entry of the log: each field but the workflow
\* name derived from the run again, the workflow name as it was resolved.
VectorOf(e) ==
  [i \in 1..Len(config.WorkflowFields) |->
     IF config.WorkflowFields[i] = "workflow_name"
     THEN e.series[1][1][i]
     ELSE labelValues(e.repo, e.run[1], <<config.WorkflowFields[i]>>)[1]]

\* The distinct label vectors of the fetched runs with an id.
Vectors == { VectorOf(WithId[k]) : k \in 1..Len(WithId) }

\* The last fetched run that derives lv, as the log has it.
LastWith(lv) ==
  WithId[CHOOSE k \in 1..Len(WithId) :
           /\ VectorOf(WithId[k]) = lv
           /\ \A m \in (k + 1)..Len(WithId) : VectorOf(WithId[m]) # lv]

\* C35: at rest after a cycle the run-status gauge holds one series for
\* each distinct label vector derived from the fetched runs with an id,
\* valued the status code of the last of them in fetch order, and with
\* duration collection on the duration gauge holds the same series, each
\* valued the duration of that last run; so the series are as many as the
\* distinct vectors and at most as many as the fetched runs with an id.
C35_LastRunOfAVectorWins ==
  (task = "runs" /\ runsTask.pc = "idle") =>
    /\ DOMAIN workflowRunStatusGauge = Vectors
    /\ \A lv \in Vectors :
         LET e == LastWith(lv)
         IN /\ workflowRunStatusGauge[lv] =
                 TableCode(AbsentAsEmpty(e.run[1].Status),
                           AbsentAsEmpty(e.run[1].Conclusion))
            /\ config.FetchWorkflowRunUsage =>
                 /\ lv \in DOMAIN workflowRunDurationGauge
                 /\ workflowRunDurationGauge[lv] =
                      IF AnswersDuration(e.usage[1])
                      THEN e.usage[1].usage[1].RunDurationMS[1]
                      ELSE FallbackDuration(e.run[1])
    /\ config.FetchWorkflowRunUsage => DOMAIN workflowRunDurationGauge = Vectors
    /\ Cardinality(DOMAIN workflowRunStatusGauge) = Cardinality(Vectors)
    /\ Cardinality(DOMAIN workflowRunStatusGauge) <= Len(WithId)

\* At rest after a cycle that fetched two runs with an id, both deriving
\* the vector (o/a, completed): the first failed and the endpoint gave its
\* duration, the second succeeded and the endpoint gave none.  Each gauge
\* holds one series, with the code and the duration of the second.
C35_Witness ==
  /\ task = "runs"
  /\ runsTask.pc = "idle"
  /\ config.FetchWorkflowRunUsage
  /\ config.WorkflowFields = <<"repo", "status">>
  /\ Len(WithId) = 2
  /\ WithId[1].run[1].Conclusion = Ptr("failure")
  /\ WithId[2].run[1].Conclusion = Ptr("success")
  /\ AnswersDuration(WithId[1].usage[1])
  /\ WithId[2].usage[1].err = "other"
  /\ DOMAIN workflowRunStatusGauge = {<<"o/a", "completed">>}
  /\ workflowRunStatusGauge[<<"o/a", "completed">>] = 1
  /\ workflowRunDurationGauge = [lv \in {<<"o/a", "completed">>} |-> 5000]

=============================================================================
